---- MODULE Spec2Model ----
(***************************************************************************)
(* State-machine model of the sustainable-ux demo: the GPUMonitor          *)
(* estimator (src/src/GPUMonitor.js), the cadence loop of createModelScene *)
(* (src/src/ThreeDModelScene.js) and the render loop of createDoorScene    *)
(* (src/unnamed/part_004) with its ticker worker                           *)
(* (src/src/renderTicker.worker.js).                                       *)
(*                                                                         *)
(* JavaScript numbers are modelled as exact rationals <<n, d>> (d > 0, in  *)
(* lowest terms); IEEE-754 rounding error is not modelled.  Handlers run   *)
(* to completion on the single UI thread, so each handler is one action.   *)
(* A scene's call gpuMonitor.onFrameRendered(now) is recorded in the       *)
(* scene's specification as the call event (the timestamp passed); the     *)
(* monitor's own state machine is explored in SpecMon under arbitrary      *)
(* timestamps, which covers every call sequence a scene can make.          *)
(***************************************************************************)
EXTENDS Integers, Sequences, FiniteSets, TLC

VARIABLES
  \* ---- GPUMonitor (src/src/GPUMonitor.js) ----
  currentTheme,     \* this.currentTheme
  stats_fps,        \* this.stats.fps            (rational)
  stats_frameTime,  \* this.stats.frameTime      (rational)
  stats_drawCalls,  \* this.stats.drawCalls
  stats_triangles,  \* this.stats.triangles
  gpu_utilization,  \* this.stats.gpu.utilization (integer)
  gpu_temperature,  \* this.stats.gpu.temperature (rational)
  gpu_power,        \* this.stats.gpu.power       (integer)
  frameTimes,       \* this.frameTimes    (sequence of integer deltas)
  lastRenderNow,    \* this.lastRenderNow
  fpsSamples,       \* this.fpsSamples    (sequence of rationals)
  dynamicPeakFps,   \* this.dynamicPeakFps (rational)
  estimateFresh,    \* history: no input of the estimate changed since it ran
  snapshot,         \* the object the last getStats() returned to its caller
  dashboard,        \* GPUDashboard's rolling buffers fpsBuf and powerHistRef
  inserted,         \* history: the values pushed into each rolling window
  ui,               \* ThreeSceneWithGPU: the mode shown, the comparison runs
                    \* under way and the averages they stored

  \* ---- the mounted scene: createModelScene (src/src/ThreeDModelScene.js)
  \*      or createDoorScene (src/unnamed/part_004) ----
  scene,            \* "model", "door", or "none" when only the monitor runs
  targetFps,        \* let targetFps
  frameIntervalMs,  \* let frameIntervalMs      (rational)
  lastRenderTime,   \* let lastRenderTime
  backgroundFps,    \* let backgroundFps         (model scene)
  isHidden,         \* let isHidden              (model scene)
  rampStartMs,      \* let rampStartMs           (model scene)
  pixelRatioClamp,  \* let pixelRatioClamp       (model scene, rational)
  rendererPixelRatio, \* the value last given to renderer.setPixelRatio
  \* ---- createDoorScene only ----
  isPaused,         \* let isPaused
  pauseOnHidden,    \* let pauseOnHidden
  worker,           \* let worker: TRUE once the Worker has been created
  timers,           \* pending setTimeout callbacks: the times they are due
  timeoutLive,      \* timeoutId names the last of `timers`
  frameIdLive,      \* frameId names a registered callback not yet called
  \* ---- renderTicker.worker.js ----
  intervalId,       \* let intervalId: TRUE while it names an interval
  activeIntervals,  \* interval timers that are set in the worker
  workerOrigin,     \* main-thread time at which the worker's clock started
  toWorker,         \* types of the messages posted to the worker, not yet handled
  inflight,         \* tick timestamps posted by the worker, not yet handled
  \* ---- the host environment ----
  clock,            \* performance.now() on the main thread, in ms
  docHidden,        \* document.hidden
  workerCreatable,  \* new Worker(...) succeeds in this browser
  frameStart,       \* timestamp of the frame whose callbacks are due
  rafPending,       \* callbacks registered with requestAnimationFrame
  rafDue,           \* callbacks of the frame that began, not yet called
  monDue,           \* the monitor loop's callback of that frame is not yet called
  \* ---- the session ----
  cleanedUp,        \* cleanup() of the scene has returned
  listening,        \* the scene's window and document listeners are attached
  \* ---- history variables ----
  tick,             \* what the last step did, when it was a call of animate
  reported,         \* the timestamp last passed to onFrameRendered (0: none)
  modeCall,         \* the mode of the last setPerformanceMode call, "none"
                    \* when there was none or another setter came after it
  shownAt           \* clock of the last hidden-to-visible transition (0: none)

monVars == <<currentTheme, stats_fps, stats_frameTime, stats_drawCalls,
             stats_triangles, gpu_utilization, gpu_temperature, gpu_power,
             frameTimes, lastRenderNow, fpsSamples, dynamicPeakFps,
             estimateFresh, snapshot, dashboard, inserted, ui>>

\* what the consumers of the monitor hold, and the history of the windows
consumerVars == <<snapshot, dashboard, inserted, ui>>

sceneVars == <<scene, targetFps, frameIntervalMs, lastRenderTime, backgroundFps,
               isHidden, rampStartMs, pixelRatioClamp, rendererPixelRatio>>

doorVars == <<isPaused, pauseOnHidden, worker, timers, timeoutLive,
              frameIdLive>>

workerVars == <<intervalId, activeIntervals, workerOrigin, toWorker, inflight>>

envVars == <<clock, docHidden, workerCreatable, frameStart, rafPending, rafDue>>

mountVars == <<monDue, cleanedUp, listening>>

histVars == <<tick, reported, modeCall, shownAt>>

vars == <<monVars, sceneVars, doorVars, workerVars, envVars, mountVars,
          histVars>>

-----------------------------------------------------------------------------
(* Exact rational arithmetic for JavaScript number expressions.            *)

RECURSIVE GCD(_, _)
GCD(a, b) == IF b = 0 THEN a ELSE GCD(b, a % b)

Abs(x) == IF x < 0 THEN -x ELSE x

\* the rational n/d (d # 0) in lowest terms with a positive denominator
Norm(n, d) ==
  LET g == GCD(Abs(n), Abs(d))
      s == IF d < 0 THEN -1 ELSE 1
  IN  <<(s * n) \div g, (s * d) \div g>>

R(n) == <<n, 1>>
\* the operations cancel common factors before they multiply, which keeps
\* every intermediate value small
RAdd(a, b) ==
  LET g == GCD(a[2], b[2])
  IN  Norm(a[1] * (b[2] \div g) + b[1] * (a[2] \div g), (a[2] \div g) * b[2])
RNeg(a) == <<-a[1], a[2]>>
RSub(a, b) == RAdd(a, RNeg(b))
RMul(a, b) ==
  LET g1 == GCD(Abs(a[1]), b[2])
      g2 == GCD(Abs(b[1]), a[2])
  IN  Norm((a[1] \div g1) * (b[1] \div g2), (a[2] \div g2) * (b[2] \div g1))
RDiv(a, b) == RMul(a, IF b[1] < 0 THEN <<-b[2], -b[1]>> ELSE <<b[2], b[1]>>)
RLe(a, b) ==
  LET g == GCD(a[2], b[2])
  IN  a[1] * (b[2] \div g) <= b[1] * (a[2] \div g)
RLt(a, b) == ~RLe(b, a)
RMin(a, b) == IF RLe(a, b) THEN a ELSE b
RMax(a, b) == IF RLe(a, b) THEN b ELSE a
RFloor(a) == a[1] \div a[2]
\* Math.round: the nearest integer, ties towards +Infinity
MathRound(a) == RFloor(RAdd(a, <<1, 2>>))
IsInt(a) == a[2] = 1

\* NaN, the result of 0 / 0 and of arithmetic on what is not a number
NaN == <<0, 0>>

\* s[i] + ... + s[j], summed by halves, which keeps the recursion shallow
\* for the windows of 60 and 120 entries
RECURSIVE SumRange(_, _, _)
SumRange(s, i, j) ==
  IF i > j THEN 0
  ELSE IF i = j THEN s[i]
  ELSE LET mid == (i + j) \div 2
       IN  SumRange(s, i, mid) + SumRange(s, mid + 1, j)

SeqSum(s) == SumRange(s, 1, Len(s))

\* the greatest of s[i], ..., s[j] (i <= j)
RECURSIVE MaxRange(_, _, _)
MaxRange(s, i, j) ==
  IF i = j THEN s[i]
  ELSE LET mid == (i + j) \div 2
           lo  == MaxRange(s, i, mid)
           hi  == MaxRange(s, mid + 1, j)
       IN  RMax(lo, hi)

RSeqMax(s) == MaxRange(s, 1, Len(s))

-----------------------------------------------------------------------------
(* GPUMonitor: bounds and input domains of the exploration.                *)

\* onFrameRendered is explored until frameTimes holds MaxFrames deltas
MaxFrames == 2
\* ... and until fpsSamples holds MaxSamples values
MaxSamples == 2
\* SpecEst starts after at most MaxRun calls of onFrameRendered / resetStats
MaxRun == 3

\* timestamps (ms) handed to onFrameRendered: 0 (falsy), repeated and
\* decreasing ones, deltas of 500, 1000, 1500 and 2000 ms (2, 1, 2/3, 1/2 fps)
TimeStamps == {0, 500, 1000, 2500}

\* renderer.info.render {calls, triangles} read by updateWebGLStats
RenderInfos == {<<0, 0>>, <<16, 0>>, <<50, 125000>>, <<250, 600000>>}

\* theme identifiers handed to setTheme; "" stands for a falsy argument
ThemeInputs == {"light", "dark", "high-contrast", "eink", "oled", "sepia", ""}

\* the smaller input domains of SpecMon
MonRenderInfos == {<<0, 0>>, <<16, 0>>, <<250, 600000>>}
MonThemeInputs == {"dark", "sepia", ""}

\* this.themeBaselineWatts
themeBaselineWatts == [light |-> 14, dark |-> 9, eink |-> 7, oled |-> 6]
    @@ ("high-contrast" :> 11)

frameTimesCap == 60
fpsSamplesCap == 120
initialPeakFps == 60
dynamicWatts == 70
baseTemp == 40
tempSpan == 35
defaultBaselineWatts == 10
utilizationFloor == 5
utilizationCeil == 100

-----------------------------------------------------------------------------
(* GPUMonitor.estimateGPUUtilization, piece by piece.                      *)

\* names of the properties every object inherits from Object.prototype: the
\* lookup this.themeBaselineWatts[name] finds a function there, which is
\* neither null nor undefined, so that ?? keeps it
InheritedNames == {"constructor"}

\* this.themeBaselineWatts[this.currentTheme] ?? 10, for a theme that names
\* no inherited property
ThemeBase(theme) ==
  IF theme \in DOMAIN themeBaselineWatts THEN themeBaselineWatts[theme]
  ELSE defaultBaselineWatts

\* const fps = Math.max(1, this.stats.fps || 0)
FlooredFps(fps) == RMax(R(1), fps)

\* const peak = Math.max(1, this.dynamicPeakFps || 60)
FlooredPeak(peak) == RMax(R(1), IF peak[1] = 0 THEN R(initialPeakFps) ELSE peak)

\* mutant: the frame rate is not floored at 1 before the division
RelativeFps_NoFloor(fps, peak) == RMin(R(1), RDiv(fps, FlooredPeak(peak)))

\* const relativeFps = Math.min(1, fps / peak)
RelativeFps(fps, peak) == RMin(R(1), RDiv(FlooredFps(fps), FlooredPeak(peak)))

\* Math.min(1, drawCalls / 200 + triangles / 500000)
Complexity(dc, tri) == RMin(R(1), RAdd(Norm(dc, 200), Norm(tri, 500000)))

\* (relativeFps * 0.7 + complexity * 0.3) * 100
RawUtilization(fps, peak, dc, tri) ==
  RMul(RAdd(RMul(RelativeFps(fps, peak), <<7, 10>>),
            RMul(Complexity(dc, tri), <<3, 10>>)), R(100))

\* mutant: the lower clamp is forgotten
ClampUtilization_NoFloor(u) == RMin(R(utilizationCeil), u)

\* utilization = Math.max(5, Math.min(100, utilization))
ClampUtilization(u) == RMax(R(utilizationFloor), RMin(R(utilizationCeil), u))

\* the local variable `utilization` after its clamp (not yet rounded)
LocalUtilization(fps, peak, dc, tri) ==
  ClampUtilization(RawUtilization(fps, peak, dc, tri))

\* this.stats.gpu.utilization = Math.round(utilization)
UtilizationPct(u) == MathRound(u)

\* mutant: the utilization is not scaled to a fraction
TemperatureOf_NoScale(u) == RAdd(R(baseTemp), RMul(R(tempSpan), u))

\* mutant: the temperature is derived from the rounded percentage
TemperatureOf_FromPct(u) ==
  RAdd(R(baseTemp), RMul(R(tempSpan), RDiv(R(MathRound(u)), R(100))))

\* baseTemp + tempSpan * (utilization / 100)
TemperatureOf(u) == RAdd(R(baseTemp), RMul(R(tempSpan), RDiv(u, R(100))))

\* mutant: the power is derived from the rounded percentage
PowerOf_FromPct(theme, u) ==
  MathRound(RAdd(R(ThemeBase(theme)),
                 RMul(R(dynamicWatts), RDiv(R(MathRound(u)), R(100)))))

\* Math.round(themeBase + dynamicWatts * (utilization / 100)); a themeBase
\* that is a function makes the sum a string, which Math.round turns into NaN
PowerOf(theme, u) ==
  IF theme \in InheritedNames THEN NaN
  ELSE MathRound(RAdd(R(ThemeBase(theme)),
                      RMul(R(dynamicWatts), RDiv(u, R(100)))))

\* the three fields written by estimateGPUUtilization
EstimateGpu(fps, peak, dc, tri, theme) ==
  LET u == LocalUtilization(fps, peak, dc, tri)
  IN  [utilization |-> UtilizationPct(u),
       temperature |-> TemperatureOf(u),
       power       |-> PowerOf(theme, u)]

estimateGPUUtilization ==
  LET e == EstimateGpu(stats_fps, dynamicPeakFps, stats_drawCalls,
                       stats_triangles, currentTheme)
  IN  /\ gpu_utilization' = e.utilization
      /\ gpu_temperature' = e.temperature
      /\ gpu_power' = e.power
      /\ estimateFresh' = TRUE
      /\ UNCHANGED <<currentTheme, stats_fps, stats_frameTime, stats_drawCalls,
                     stats_triangles, frameTimes, lastRenderNow, fpsSamples,
                     dynamicPeakFps>>

\* updateWebGLStats: the draw-call and triangle counters of renderer.info
updateWebGLStats(info) ==
  /\ stats_drawCalls' = info[1]
  /\ stats_triangles' = info[2]
  /\ estimateFresh' = FALSE
  /\ UNCHANGED <<currentTheme, stats_fps, stats_frameTime, gpu_utilization,
                 gpu_temperature, gpu_power, frameTimes, lastRenderNow,
                 fpsSamples, dynamicPeakFps>>

\* monitorLoop: updateWebGLStats() then estimateGPUUtilization()
monitorLoop(info) ==
  LET e == EstimateGpu(stats_fps, dynamicPeakFps, info[1], info[2], currentTheme)
  IN  /\ stats_drawCalls' = info[1]
      /\ stats_triangles' = info[2]
      /\ gpu_utilization' = e.utilization
      /\ gpu_temperature' = e.temperature
      /\ gpu_power' = e.power
      /\ estimateFresh' = TRUE
      /\ UNCHANGED <<currentTheme, stats_fps, stats_frameTime, frameTimes,
                     lastRenderNow, fpsSamples, dynamicPeakFps>>

\* mutant: a falsy identifier is stored as it is
ThemeOrLight_Keep(theme) == theme

\* theme || 'light'; "" stands for every falsy argument
ThemeOrLight(theme) == IF theme = "" THEN "light" ELSE theme

\* setTheme(theme): this.currentTheme = theme || 'light'
setTheme(theme) ==
  /\ currentTheme' = ThemeOrLight(theme)
  /\ estimateFresh' = FALSE
  /\ UNCHANGED <<stats_fps, stats_frameTime, stats_drawCalls, stats_triangles,
                 gpu_utilization, gpu_temperature, gpu_power, frameTimes,
                 lastRenderNow, fpsSamples, dynamicPeakFps>>

\* mutant: a full window refuses the new entry
PushWindow_DropNewest(w, x, cap) ==
  LET a == Append(w, x) IN IF Len(a) > cap THEN w ELSE a

\* push with eviction of the oldest entry beyond `cap`
PushWindow(w, x, cap) ==
  LET a == Append(w, x) IN IF Len(a) > cap THEN Tail(a) ELSE a

\* the fields onFrameRendered reads and writes, as a record
FrameState ==
  [lastRenderNow |-> lastRenderNow, frameTimes |-> frameTimes,
   frameTime |-> stats_frameTime, fps |-> stats_fps,
   fpsSamples |-> fpsSamples, dynamicPeakFps |-> dynamicPeakFps]

\* those fields after new GPUMonitor(renderer)
NewFrameState ==
  [lastRenderNow |-> 0, frameTimes |-> <<>>, frameTime |-> R(0), fps |-> R(0),
   fpsSamples |-> <<>>, dynamicPeakFps |-> R(initialPeakFps)]

\* mutant: every call takes the branch that pushes
IsFirstCall_Never(m) == FALSE

\* if (!this.lastRenderNow): no timestamp was kept yet
IsFirstCall(m) == m.lastRenderNow = 0

\* mutant: the sum is divided by the capacity of the window
AvgFrameTime_OverCap(ft) == Norm(SeqSum(ft), frameTimesCap)

\* this.frameTimes.reduce((a, b) => a + b, 0) / this.frameTimes.length
AvgFrameTime(ft) == Norm(SeqSum(ft), Len(ft))

\* mutant: the peak never falls
RecentPeak_Ever(prev, fs) == RMax(prev, RSeqMax(fs))

\* recentPeak = Math.max(...this.fpsSamples), kept when finite and positive
RecentPeak(prev, fs) ==
  LET recentPeak == RSeqMax(fs)
  IN  IF recentPeak[1] > 0 THEN recentPeak ELSE prev

\* the body of onFrameRendered(now) on those fields
OnFrame(m, now) ==
  IF IsFirstCall(m)         \* if (!this.lastRenderNow) { seed; return }
  THEN [m EXCEPT !.lastRenderNow = now]
  ELSE LET delta == now - m.lastRenderNow
           ft    == PushWindow(m.frameTimes, delta, frameTimesCap)
           avgFrameTime == AvgFrameTime(ft)
       IN  IF avgFrameTime[1] # 0  \* avgFrameTime && isFinite(avgFrameTime)
           THEN LET fps == RDiv(R(1000), avgFrameTime)
                    fs  == PushWindow(m.fpsSamples, fps, fpsSamplesCap)
                IN  [lastRenderNow  |-> now,
                     frameTimes     |-> ft,
                     frameTime      |-> avgFrameTime,
                     fps            |-> fps,
                     fpsSamples     |-> fs,
                     dynamicPeakFps |-> RecentPeak(m.dynamicPeakFps, fs)]
           ELSE [m EXCEPT !.lastRenderNow = now, !.frameTimes = ft]

SetFrameState(m) ==
  /\ lastRenderNow' = m.lastRenderNow
  /\ frameTimes' = m.frameTimes
  /\ stats_frameTime' = m.frameTime
  /\ stats_fps' = m.fps
  /\ fpsSamples' = m.fpsSamples
  /\ dynamicPeakFps' = m.dynamicPeakFps

\* resetStats() on those fields
ResetFrames(m) == [m EXCEPT !.frameTimes = <<>>]

\* onFrameRendered(now)
onFrameRendered(now) ==
  /\ Len(frameTimes) < MaxFrames
  /\ Len(fpsSamples) < MaxSamples
  /\ SetFrameState(OnFrame(FrameState, now))
  /\ estimateFresh' = FALSE
  /\ UNCHANGED <<currentTheme, stats_drawCalls, stats_triangles,
                 gpu_utilization, gpu_temperature, gpu_power>>

\* resetStats(): frameCount and lastTime are not read by any estimate
resetStats ==
  /\ SetFrameState(ResetFrames(FrameState))
  /\ UNCHANGED <<currentTheme, stats_drawCalls, stats_triangles,
                 gpu_utilization, gpu_temperature, gpu_power, estimateFresh>>

\* this.stats.gpu, the object the gpu field of this.stats refers to
StatsGpu == "this.stats.gpu"

\* getStats() has not been called
NoSnapshot == [taken |-> FALSE]

\* the dashboard's buffers after useRollingBuffer(120) and useRollingBuffer(60),
\* its empty power bucket, and the polls since the bucket was opened
NoDashboard ==
  [fpsBuf |-> <<>>, powerHist |-> <<>>, samples |-> <<>>, sinceBucket |-> 0]

\* useState(null), the value of an average not yet measured
NoResult == [measured |-> FALSE]

\* ThreeSceneWithGPU as mounted: useState('optimized'), no comparison run
NoUi ==
  [mode |-> "optimized", runs |-> <<>>, toggles |-> 0,
   baselineAvg |-> NoResult, optimizedAvg |-> NoResult,
   theme |-> "light", pixelRatioClamp |-> <<3, 2>>, targetFps |-> 30,
   backgroundFps |-> 5]

\* nothing was pushed yet, onFrameRendered and the dashboard's poll were not
\* called
NoneInserted ==
  [calls |-> 0, polls |-> 0, frameTimes |-> <<>>, fpsSamples |-> <<>>,
   fpsBuf |-> <<>>, powerHist |-> <<>>]

\* new GPUMonitor(renderer) followed by the calls run[1], run[2], ..., each
\* onFrameRendered(t), written <<"frame", t>>, or resetStats(), written
\* <<"reset", 0>>; then setTheme(theme) and updateWebGLStats(info).  The
\* constructor ends in startMonitoring(), whose first monitorLoop() has
\* estimated from the construction defaults.
RECURSIVE AfterFrames(_)
AfterFrames(run) ==
  IF run = <<>> THEN NewFrameState
  ELSE LET m    == AfterFrames(SubSeq(run, 1, Len(run) - 1))
           step == run[Len(run)]
       IN  IF step[1] = "reset" THEN ResetFrames(m) ELSE OnFrame(m, step[2])

MonStart(run, theme, info) ==
  LET e == EstimateGpu(R(0), R(initialPeakFps), 0, 0, "light")
      m == AfterFrames(run)
  IN  /\ currentTheme = theme
      /\ stats_fps = m.fps
      /\ stats_frameTime = m.frameTime
      /\ stats_drawCalls = info[1]
      /\ stats_triangles = info[2]
      /\ gpu_utilization = e.utilization
      /\ gpu_temperature = e.temperature
      /\ gpu_power = e.power
      /\ frameTimes = m.frameTimes
      /\ lastRenderNow = m.lastRenderNow
      /\ fpsSamples = m.fpsSamples
      /\ dynamicPeakFps = m.dynamicPeakFps
      /\ estimateFresh = (run = <<>> /\ theme = "light" /\ info = <<0, 0>>)
      /\ snapshot = NoSnapshot
      /\ dashboard = NoDashboard
      /\ inserted = NoneInserted
      /\ ui = NoUi

MonInit == MonStart(<<>>, "light", <<0, 0>>)

\* no scene is mounted: the monitor is driven directly
NoTick == [called |-> FALSE, op |-> "other"]

\* the scene's variables that createModelScene does not have
NoDoor ==
  /\ isPaused = FALSE
  /\ pauseOnHidden = FALSE
  /\ worker = FALSE
  /\ timers = <<>>
  /\ timeoutLive = FALSE
  /\ frameIdLive = FALSE
  /\ intervalId = FALSE
  /\ activeIntervals = 0
  /\ workerOrigin = 0
  /\ toWorker = <<>>
  /\ inflight = <<>>
  /\ workerCreatable = FALSE

NoScene ==
  /\ scene = "none"
  /\ targetFps = 0
  /\ frameIntervalMs = R(0)
  /\ lastRenderTime = 0
  /\ backgroundFps = 0
  /\ isHidden = FALSE
  /\ rampStartMs = 0
  /\ pixelRatioClamp = R(0)
  /\ rendererPixelRatio = R(0)
  /\ NoDoor
  /\ clock = 0
  /\ docHidden = FALSE
  /\ frameStart = 0
  /\ rafPending = 0
  /\ rafDue = 0
  /\ monDue = FALSE
  /\ cleanedUp = FALSE
  /\ listening = FALSE
  /\ tick = NoTick
  /\ reported = 0
  /\ modeCall = "none"
  /\ shownAt = 0

MonNext ==
  /\ \/ \E now \in TimeStamps : onFrameRendered(now)
     \/ \E info \in MonRenderInfos : updateWebGLStats(info)
     \/ \E info \in MonRenderInfos : monitorLoop(info)
     \/ estimateGPUUtilization
     \/ \E th \in MonThemeInputs : setTheme(th)
     \/ resetStats
  /\ UNCHANGED <<consumerVars, sceneVars, doorVars, workerVars, envVars,
                 mountVars, histVars>>

\* the monitor constructed with no scene mounted
MonOnlyInit == MonInit /\ NoScene

\* the monitor under arbitrary sequences of its operations
SpecMon == MonOnlyInit /\ [][MonNext]_vars

RunSteps == {<<"frame", t>> : t \in TimeStamps} \cup {<<"reset", 0>>}
FrameRuns == UNION {[1..n -> RunSteps] : n \in 0..MaxRun}

EstInit ==
  /\ \E run \in FrameRuns, th \in ThemeInputs \ {""}, info \in RenderInfos :
       MonStart(run, th, info)
  /\ NoScene

EstNext ==
  /\ \/ estimateGPUUtilization
     \/ \E info \in RenderInfos : monitorLoop(info)
  /\ UNCHANGED <<consumerVars, sceneVars, doorVars, workerVars, envVars,
                 mountVars, histVars>>

\* the estimate as a function of its inputs: every monitor state reached by
\* up to MaxRun calls of onFrameRendered / resetStats, any theme and any
\* counters, then estimated
SpecEst == EstInit /\ [][EstNext]_vars

-----------------------------------------------------------------------------
(* The host environment shared by both scenes.                             *)

\* performance.now() is explored up to MaxClock ms
MaxClock == 1500

\* at most MaxRaf callbacks are registered with requestAnimationFrame
MaxRaf == 2

\* the clock advances in steps of half a second
TimeSteps == {500}

\* window.devicePixelRatio || 1
devicePixelRatio == <<2, 1>>

rampDurationMs == 900

\* what a step that calls setPerformanceMode(mode) leaves in `tick`
ModeStep(mode) ==
  [called |-> FALSE, op |-> "setPerformanceMode", mode |-> mode,
   prevMode |-> modeCall,
   before |-> <<targetFps, frameIntervalMs, pixelRatioClamp,
                rendererPixelRatio, isPaused, pauseOnHidden>>]

\* the callbacks of a frame run one after the other in a single task of the
\* main thread, the monitor loop's first (it was registered first, by the
\* GPUMonitor constructor, and registers itself again when it runs): while
\* they run no other task of the main thread does, and the steps of the worker
\* thread, which touch none of the variables the callbacks touch, are taken
\* before or after them
FrameRunning == ~monDue /\ rafDue > 0
MainThreadFree == ~FrameRunning

\* time passes
Advance(d) ==
  /\ MainThreadFree
  /\ clock + d <= MaxClock
  /\ clock' = clock + d
  /\ tick' = NoTick
  /\ UNCHANGED <<monVars, mountVars, sceneVars, doorVars, workerVars, docHidden,
                 workerCreatable, frameStart, rafPending, rafDue, reported,
                 modeCall, shownAt>>

\* the browser begins a frame: every callback registered with
\* requestAnimationFrame will be called with this frame's timestamp, which is
\* the time the frame began and not the time the callback runs
BeginFrame ==
  /\ rafDue = 0
  /\ ~monDue
  /\ clock > frameStart
  /\ frameStart' = clock
  /\ rafDue' = rafPending
  /\ rafPending' = 0
  /\ monDue' = TRUE
  /\ tick' = NoTick
  /\ UNCHANGED <<monVars, cleanedUp, listening, sceneVars, doorVars,
                 workerVars, clock, docHidden, workerCreatable, reported,
                 modeCall, shownAt>>

\* renderer.info.render of the mounted scene, as the monitor loop reads it
SceneRenderInfo == <<0, 0>>

\* the browser calls the monitor loop's callback, () => this.monitorLoop(),
\* which registers itself again; destroy() leaves it registered
Monitor_rafTick ==
  /\ monDue
  /\ monDue' = FALSE
  /\ monitorLoop(SceneRenderInfo)
  /\ tick' = [called |-> FALSE, op |-> "monitorLoop"]
  /\ UNCHANGED <<consumerVars, cleanedUp, listening, sceneVars, doorVars,
                 workerVars, envVars, reported, modeCall, shownAt>>

\* if (!lastRenderTime) lastRenderTime = now
SeedLastRenderTime_Never(last, now) == last
SeedLastRenderTime(last, now) == IF last = 0 THEN now ELSE last

\* if (elapsed >= interval) { renderer.render(scene, camera); ... }
RenderDue_Strict(elapsed, interval) == RLt(interval, R(elapsed))
RenderDue(elapsed, interval) == RLe(interval, R(elapsed))

\* gpuMonitor.onFrameRendered(now) is called inside the branch that renders
ReportsFrame_Always(render) == TRUE
ReportsFrame(render) == render

-----------------------------------------------------------------------------
(* createModelScene: render cadence control.                               *)

\* arguments of setTargetFps, setBackgroundFps and setPixelRatioClamp
TargetFpsInputs == {0, 2, 500}
BackgroundFpsInputs == {1, 50}
PixelRatioClampInputs == {<<1, 4>>}
Modes == {"baseline", "optimized"}

\* the values setPerformanceMode assigns
ModePreset_SameClamp(mode) ==
  [fps |-> IF mode = "baseline" THEN 60 ELSE 30, clamp |-> <<3, 1>>]
ModePreset(mode) ==
  IF mode = "baseline" THEN [fps |-> 60, clamp |-> <<3, 1>>]
  ELSE [fps |-> 30, clamp |-> <<3, 2>>]

\* applyRendererSizing: renderer.setPixelRatio(Math.min(dpr, pixelRatioClamp))
applyRendererSizing(clamp) == RMin(devicePixelRatio, clamp)

\* t*t*(3 - 2*t)
Smoothstep(t) == RMul(RMul(t, t), RSub(R(3), RMul(R(2), t)))

\* rampStartMs ? Math.min(1, (now - rampStartMs) / rampDurationMs) : 1
RampT(now) ==
  IF rampStartMs # 0 THEN RMin(R(1), Norm(now - rampStartMs, rampDurationMs))
  ELSE R(1)

\* 1000 / Math.max(1, backgroundFps)
HiddenInterval == Norm(1000, IF backgroundFps < 1 THEN 1 ELSE backgroundFps)

\* getEffectiveIntervalMs(now)
getEffectiveIntervalMs(now) ==
  LET hiddenInterval  == HiddenInterval
      visibleInterval == frameIntervalMs
      t     == RampT(now)
      eased == IF RLt(t, R(1)) THEN Smoothstep(t) ELSE R(1)
  IN  IF isHidden THEN hiddenInterval
      ELSE RAdd(hiddenInterval, RMul(RSub(visibleInterval, hiddenInterval), eased))

\* 1000 / targetFps, as both setters of targetFps compute frameIntervalMs
FrameIntervalOf_Stale(fps) == frameIntervalMs
FrameIntervalOf(fps) == Norm(1000, fps)

\* animate(now) of createModelScene, called for the frame that began at `now`
Model_animate ==
  /\ scene = "model"
  /\ FrameRunning
  /\ LET now     == frameStart
         seeded  == SeedLastRenderTime(lastRenderTime, now)
         elapsed == now - seeded
         eff     == getEffectiveIntervalMs(now)
         render  == RenderDue(elapsed, eff)
         report  == ReportsFrame(render)
     IN  /\ lastRenderTime' = IF render THEN now ELSE seeded
         /\ reported' = IF report THEN now ELSE reported
         /\ tick' = [called |-> TRUE, op |-> "animate", source |-> "raf", now |-> now,
                     prevLast |-> lastRenderTime, interval |-> eff,
                     paused |-> FALSE, rendered |-> render,
                     reportedNow |-> report, prevReported |-> reported]
  /\ rafDue' = rafDue - 1
  /\ rafPending' = rafPending + 1          \* requestAnimationFrame(animate)
  /\ UNCHANGED <<monVars, mountVars, scene, targetFps, frameIntervalMs, backgroundFps,
                 isHidden, rampStartMs, pixelRatioClamp, rendererPixelRatio,
                 doorVars, workerVars, clock, docHidden, workerCreatable,
                 frameStart, modeCall, shownAt>>

\* the assignments of setPerformanceMode(mode) of createModelScene
Model_applyMode(mode) ==
  /\ targetFps' = ModePreset(mode).fps
  /\ frameIntervalMs' = FrameIntervalOf(targetFps')
  /\ pixelRatioClamp' = ModePreset(mode).clamp
  /\ rendererPixelRatio' = applyRendererSizing(pixelRatioClamp')
  /\ modeCall' = mode

\* setPerformanceMode(mode) of createModelScene
Model_setPerformanceMode(mode) ==
  /\ scene = "model"
  /\ MainThreadFree
  /\ ~cleanedUp
  /\ Model_applyMode(mode)
  /\ tick' = ModeStep(mode)
  /\ UNCHANGED <<monVars, mountVars, scene, lastRenderTime, backgroundFps, isHidden,
                 rampStartMs, doorVars, workerVars, envVars, reported, shownAt>>

\* setTargetFps(nextFps): Math.max(1, Math.min(120, nextFps || 30))
setTargetFps(nextFps) ==
  /\ scene = "model"
  /\ MainThreadFree
  /\ ~cleanedUp
  /\ LET n == IF nextFps = 0 THEN 30 ELSE nextFps
     IN  targetFps' = IF n > 120 THEN 120 ELSE IF n < 1 THEN 1 ELSE n
  /\ frameIntervalMs' = FrameIntervalOf(targetFps')
  /\ modeCall' = "none"
  /\ tick' = NoTick
  /\ UNCHANGED <<monVars, mountVars, scene, lastRenderTime, backgroundFps, isHidden,
                 rampStartMs, pixelRatioClamp, rendererPixelRatio, doorVars,
                 workerVars, envVars, reported, shownAt>>

\* setBackgroundFps(nextFps): Math.max(1, Math.min(30, nextFps || 5))
setBackgroundFps(nextFps) ==
  /\ scene = "model"
  /\ MainThreadFree
  /\ ~cleanedUp
  /\ LET n == IF nextFps = 0 THEN 5 ELSE nextFps
     IN  backgroundFps' = IF n > 30 THEN 30 ELSE IF n < 1 THEN 1 ELSE n
  /\ tick' = NoTick
  /\ UNCHANGED <<monVars, mountVars, scene, targetFps, frameIntervalMs, lastRenderTime,
                 isHidden, rampStartMs, pixelRatioClamp, rendererPixelRatio,
                 doorVars, workerVars, envVars, reported, modeCall, shownAt>>

\* setPixelRatioClampValue(nextClamp): Math.max(0.5, Math.min(3, nextClamp || 1.5))
setPixelRatioClampValue(nextClamp) ==
  /\ scene = "model"
  /\ MainThreadFree
  /\ ~cleanedUp
  /\ LET c == IF nextClamp[1] = 0 THEN <<3, 2>> ELSE nextClamp
     IN  pixelRatioClamp' = RMax(<<1, 2>>, RMin(R(3), c))
  /\ rendererPixelRatio' = applyRendererSizing(pixelRatioClamp')
  /\ modeCall' = "none"
  /\ tick' = NoTick
  /\ UNCHANGED <<monVars, mountVars, scene, targetFps, frameIntervalMs, lastRenderTime,
                 backgroundFps, isHidden, rampStartMs, doorVars, workerVars,
                 envVars, reported, shownAt>>

\* the window was resized: the resize listener calls applyRendererSizing()
Model_resize ==
  /\ scene = "model"
  /\ MainThreadFree
  /\ listening
  /\ rendererPixelRatio' = applyRendererSizing(pixelRatioClamp)
  /\ tick' = NoTick
  /\ UNCHANGED <<monVars, mountVars, scene, targetFps, frameIntervalMs, lastRenderTime,
                 backgroundFps, isHidden, rampStartMs, pixelRatioClamp,
                 doorVars, workerVars, envVars, reported, modeCall, shownAt>>

\* the page's visibility changes and the scene's visibilitychange listener runs
Model_visibilitychange ==
  /\ scene = "model"
  /\ MainThreadFree
  /\ listening
  /\ docHidden' = ~docHidden
  /\ isHidden' = docHidden'
  /\ rampStartMs' = IF ~isHidden' /\ isHidden THEN clock ELSE rampStartMs
  /\ shownAt' = IF docHidden /\ ~docHidden' THEN clock ELSE shownAt
  /\ tick' = NoTick
  /\ UNCHANGED <<monVars, mountVars, scene, targetFps, frameIntervalMs, lastRenderTime,
                 backgroundFps, pixelRatioClamp, rendererPixelRatio, doorVars,
                 workerVars, clock, workerCreatable, frameStart, rafPending,
                 rafDue, reported, modeCall>>

\* cleanup() of createModelScene: it removes the canvas's pointer listeners,
\* disposes the renderer and calls gpuMonitor.destroy(), which is empty; the
\* requestAnimationFrame registration and the resize and visibilitychange
\* listeners are left as they are
Model_cleanup ==
  /\ scene = "model"
  /\ MainThreadFree
  /\ ~cleanedUp
  /\ cleanedUp' = TRUE
  /\ tick' = [called |-> FALSE, op |-> "cleanup"]
  /\ UNCHANGED <<monVars, monDue, listening, sceneVars, doorVars, workerVars,
                 envVars, reported, modeCall, shownAt>>

\* createModelScene(mountNode), with the page visible or hidden
ModelInit ==
  /\ scene = "model"
  /\ targetFps = 30
  /\ backgroundFps = 5
  /\ frameIntervalMs = Norm(1000, 30)
  /\ lastRenderTime = 0
  /\ docHidden \in BOOLEAN
  /\ isHidden = docHidden
  /\ rampStartMs = 0
  /\ pixelRatioClamp = <<3, 2>>
  /\ rendererPixelRatio = applyRendererSizing(<<3, 2>>)
  /\ NoDoor
  /\ clock \in TimeSteps
  /\ frameStart = 0
  /\ rafPending = 1
  /\ rafDue = 0
  /\ monDue = FALSE
  /\ cleanedUp = FALSE
  /\ listening = TRUE
  /\ tick = NoTick
  /\ reported = 0
  /\ modeCall = "none"
  /\ shownAt = 0

ModelNext ==
  \/ Model_animate
  \/ \E m \in Modes : Model_setPerformanceMode(m)
  \/ \E n \in TargetFpsInputs : setTargetFps(n)
  \/ \E n \in BackgroundFpsInputs : setBackgroundFps(n)
  \/ \E c \in PixelRatioClampInputs : setPixelRatioClampValue(c)
  \/ Model_resize
  \/ Model_cleanup
  \/ Model_visibilitychange

-----------------------------------------------------------------------------
(* createDoorScene and its background ticker renderTicker.worker.js.       *)

\* at most MaxQueue messages to the worker are waiting to be handled
MaxQueue == 1

\* at most MaxInflight ticks of the worker are waiting to be handled
MaxInflight == 1

\* at most MaxTimers setTimeout callbacks are pending
MaxTimers == 1

\* room to register one more requestAnimationFrame callback
RafRoom == rafPending + rafDue < MaxRaf

\* renderer.setPixelRatio(Math.min(window.devicePixelRatio || 1, 3 or 1.5))
Door_pixelRatio(mode) ==
  RMin(devicePixelRatio, IF mode = "baseline" THEN <<3, 1>> ELSE <<3, 2>>)

\* animate registers a callback unless the page is hidden in baseline mode
Door_registers == isPaused \/ ~(docHidden /\ ~pauseOnHidden)

\* whether frameId names a registration not yet called, after animate ran:
\* callbacks run in the order they were registered, and frameId names the
\* registration made last
Door_frameIdLive(source) ==
  IF Door_registers THEN TRUE
  ELSE IF source = "raf" /\ rafPending = 0 THEN frameIdLive /\ rafDue > 1
  ELSE frameIdLive

\* the body of animate(now) of createDoorScene; `source` says who called it
Door_animate(now, source) ==
  /\ frameIdLive' = Door_frameIdLive(source)
  /\ IF isPaused
     THEN /\ rafPending' = rafPending + 1
          /\ tick' = [called |-> TRUE, op |-> "animate", source |-> source,
                      now |-> now, prevLast |-> lastRenderTime,
                      interval |-> frameIntervalMs, paused |-> TRUE,
                      rendered |-> FALSE, reportedNow |-> FALSE,
                      prevReported |-> reported]
          /\ UNCHANGED <<lastRenderTime, reported>>
     ELSE LET seeded  == IF lastRenderTime = 0 THEN now ELSE lastRenderTime
              elapsed == now - seeded
              render  == RLe(frameIntervalMs, R(elapsed))
          IN  /\ lastRenderTime' = IF render THEN now ELSE seeded
              /\ reported' = IF render THEN now ELSE reported
              /\ tick' = [called |-> TRUE, op |-> "animate", source |-> source,
                          now |-> now, prevLast |-> lastRenderTime,
                          interval |-> frameIntervalMs, paused |-> FALSE,
                          rendered |-> render, reportedNow |-> render,
                          prevReported |-> reported]
              /\ rafPending' = IF docHidden /\ ~pauseOnHidden THEN rafPending
                               ELSE rafPending + 1

\* the browser calls animate for the frame that began at frameStart
Door_rafTick ==
  /\ scene = "door"
  /\ FrameRunning
  /\ rafDue' = rafDue - 1
  /\ Door_animate(frameStart, "raf")
  /\ UNCHANGED <<monVars, mountVars, scene, targetFps, frameIntervalMs, backgroundFps,
                 isHidden, rampStartMs, pixelRatioClamp, rendererPixelRatio,
                 isPaused, pauseOnHidden, worker, timers, timeoutLive,
                 workerVars, clock, docHidden, workerCreatable, frameStart,
                 modeCall, shownAt>>

\* worker.onmessage: a tick of the worker arrives on the main thread
Door_workerTick ==
  /\ scene = "door"
  /\ MainThreadFree
  /\ inflight # <<>>
  /\ inflight' = Tail(inflight)
  /\ IF isPaused
     THEN /\ tick' = NoTick
          /\ UNCHANGED <<lastRenderTime, reported, rafPending, frameIdLive>>
     ELSE /\ Door_registers => RafRoom
          /\ Door_animate(IF Head(inflight) = 0 THEN clock ELSE Head(inflight),
                          "worker")
  /\ UNCHANGED <<monVars, mountVars, scene, targetFps, frameIntervalMs, backgroundFps,
                 isHidden, rampStartMs, pixelRatioClamp, rendererPixelRatio,
                 isPaused, pauseOnHidden, worker, timers, timeoutLive,
                 intervalId, activeIntervals, workerOrigin, toWorker, clock,
                 docHidden, workerCreatable, frameStart, rafDue, modeCall,
                 shownAt>>

\* the setTimeout fallback fires: animate(performance.now())
Door_timeoutTick ==
  /\ scene = "door"
  /\ MainThreadFree
  /\ \E i \in 1..Len(timers) :
       /\ RLe(timers[i], R(clock))
       /\ timers' = SubSeq(timers, 1, i - 1) \o SubSeq(timers, i + 1, Len(timers))
       /\ timeoutLive' = (timeoutLive /\ i # Len(timers))
  /\ Door_registers => RafRoom
  /\ Door_animate(clock, "timeout")
  /\ UNCHANGED <<monVars, mountVars, scene, targetFps, frameIntervalMs, backgroundFps,
                 isHidden, rampStartMs, pixelRatioClamp, rendererPixelRatio,
                 isPaused, pauseOnHidden, worker, workerVars, clock,
                 docHidden, workerCreatable, frameStart, rafDue, modeCall,
                 shownAt>>

\* setPerformanceMode(mode) of createDoorScene
Door_setPerformanceMode(mode) ==
  /\ scene = "door"
  /\ MainThreadFree
  /\ ~cleanedUp
  /\ targetFps' = IF mode = "baseline" THEN 60 ELSE 30
  /\ frameIntervalMs' = Norm(1000, targetFps')
  /\ rendererPixelRatio' = Door_pixelRatio(mode)
  /\ pauseOnHidden' = (mode # "baseline")
  /\ isPaused' = IF docHidden THEN mode # "baseline" ELSE isPaused
  /\ modeCall' = mode
  /\ tick' = ModeStep(mode)
  /\ UNCHANGED <<monVars, mountVars, scene, lastRenderTime, backgroundFps, isHidden,
                 rampStartMs, pixelRatioClamp, worker, timers, timeoutLive,
                 frameIdLive, workerVars, envVars, reported, shownAt>>

\* handleResize: the window was resized
Door_handleResize ==
  /\ scene = "door"
  /\ MainThreadFree
  /\ listening
  /\ rendererPixelRatio' = RMin(devicePixelRatio, <<3, 2>>)
  /\ tick' = NoTick
  /\ UNCHANGED <<monVars, mountVars, scene, targetFps, frameIntervalMs, lastRenderTime,
                 backgroundFps, isHidden, rampStartMs, pixelRatioClamp,
                 doorVars, workerVars, envVars, reported, modeCall, shownAt>>

\* Math.max(0, frameIntervalMs - (performance.now() - lastRenderTime))
Door_timeoutDelay ==
  RMax(R(0), RSub(frameIntervalMs, R(clock - lastRenderTime)))

\* handleVisibilityChange: the page's visibility changes
Door_handleVisibilityChange ==
  /\ scene = "door"
  /\ MainThreadFree
  /\ listening
  /\ docHidden' = ~docHidden
  /\ isPaused' = (pauseOnHidden /\ docHidden')
  /\ IF pauseOnHidden
     THEN UNCHANGED <<worker, workerOrigin, toWorker, timers, timeoutLive,
                      rafPending, frameIdLive>>
     ELSE IF docHidden'
     THEN IF worker \/ workerCreatable
          THEN /\ Len(toWorker) < MaxQueue
               /\ worker' = TRUE
               /\ workerOrigin' = IF worker THEN workerOrigin ELSE clock
               /\ toWorker' = Append(toWorker, "start")
               /\ UNCHANGED <<timers, timeoutLive, rafPending, frameIdLive>>
          ELSE /\ Len(timers) < MaxTimers
               /\ timers' = Append(timers, RAdd(R(clock), Door_timeoutDelay))
               /\ timeoutLive' = TRUE
               /\ UNCHANGED <<worker, workerOrigin, toWorker, rafPending,
                              frameIdLive>>
     ELSE /\ IF worker
             THEN /\ Len(toWorker) < MaxQueue
                  /\ toWorker' = Append(toWorker, "stop")
             ELSE UNCHANGED toWorker
          /\ timers' = IF timeoutLive THEN SubSeq(timers, 1, Len(timers) - 1)
                       ELSE timers
          /\ timeoutLive' = FALSE
          /\ RafRoom
          /\ rafPending' = rafPending + 1
          /\ frameIdLive' = TRUE
          /\ UNCHANGED <<worker, workerOrigin>>
  /\ tick' = NoTick
  /\ UNCHANGED <<monVars, mountVars, sceneVars, pauseOnHidden, intervalId,
                 activeIntervals, inflight, clock, workerCreatable,
                 frameStart, rafDue, reported, modeCall, shownAt>>

\* cleanup() of createDoorScene: cancelAnimationFrame(frameId), clearTimeout
\* of timeoutId, worker.terminate(), removal of both listeners, and
\* gpuMonitor.destroy(), which is empty. Whether a tick the worker had
\* already posted is still delivered after terminate() is up to the browser.
Door_cleanup ==
  /\ scene = "door"
  /\ MainThreadFree
  /\ ~cleanedUp
  /\ cleanedUp' = TRUE
  /\ listening' = FALSE
  /\ rafPending' = IF frameIdLive /\ rafPending > 0 THEN rafPending - 1
                   ELSE rafPending
  /\ rafDue' = IF frameIdLive /\ rafPending = 0 THEN rafDue - 1 ELSE rafDue
  /\ frameIdLive' = FALSE
  /\ timers' = IF timeoutLive THEN SubSeq(timers, 1, Len(timers) - 1)
               ELSE timers
  /\ timeoutLive' = FALSE
  /\ worker' = FALSE
  /\ IF worker
     THEN /\ intervalId' = FALSE
          /\ activeIntervals' = 0
          /\ toWorker' = <<>>
          /\ inflight' \in {inflight, <<>>}
     ELSE UNCHANGED <<intervalId, activeIntervals, toWorker, inflight>>
  /\ tick' = [called |-> FALSE, op |-> "cleanup"]
  /\ UNCHANGED <<monVars, monDue, sceneVars, isPaused, pauseOnHidden,
                 workerOrigin, clock, docHidden, workerCreatable, frameStart,
                 reported, modeCall, shownAt>>

\* if (intervalId) clearInterval(intervalId), at the head of 'start'
StartClears_Never == activeIntervals
StartClears == IF intervalId THEN activeIntervals - 1 ELSE activeIntervals

\* self.onmessage of renderTicker.worker.js handles the next message
Worker_onmessage ==
  /\ scene = "door"
  /\ MainThreadFree
  /\ toWorker # <<>>
  /\ toWorker' = Tail(toWorker)
  /\ IF Head(toWorker) = "start"
     THEN /\ activeIntervals' = StartClears + 1
          /\ intervalId' = TRUE
     ELSE /\ activeIntervals' = IF intervalId THEN activeIntervals - 1
                                ELSE activeIntervals
          /\ intervalId' = FALSE
  /\ tick' = [called |-> FALSE, op |-> "worker.onmessage",
              type |-> Head(toWorker), hadInterval |-> intervalId,
              intervalsBefore |-> activeIntervals]
  /\ UNCHANGED <<monVars, mountVars, sceneVars, doorVars, workerOrigin, inflight,
                 envVars, reported, modeCall, shownAt>>

\* the worker's interval fires: postMessage({type: 'tick', now: performance.now()}),
\* the worker's clock having started when the worker was created. The period,
\* Math.max(5, Math.floor(1000 / (fps || 60))) ms, is shorter than a clock step.
Worker_interval ==
  /\ scene = "door"
  /\ MainThreadFree
  /\ activeIntervals > 0
  /\ clock > workerOrigin
  /\ Len(inflight) < MaxInflight
  /\ inflight' = Append(inflight, clock - workerOrigin)
  /\ tick' = NoTick
  /\ UNCHANGED <<monVars, mountVars, sceneVars, doorVars, intervalId,
                 activeIntervals, workerOrigin, toWorker, envVars, reported,
                 modeCall, shownAt>>

\* createDoorScene(mountNode), with the page visible or hidden
DoorInit ==
  /\ scene = "door"
  /\ targetFps = 30
  /\ frameIntervalMs = Norm(1000, 30)
  /\ lastRenderTime = 0
  /\ backgroundFps = 0
  /\ isHidden = FALSE
  /\ rampStartMs = 0
  /\ pixelRatioClamp = R(0)
  /\ rendererPixelRatio = RMin(devicePixelRatio, <<3, 2>>)
  /\ isPaused = FALSE
  /\ pauseOnHidden = TRUE
  /\ worker = FALSE
  /\ timers = <<>>
  /\ timeoutLive = FALSE
  /\ frameIdLive = TRUE
  /\ intervalId = FALSE
  /\ activeIntervals = 0
  /\ workerOrigin = 0
  /\ toWorker = <<>>
  /\ inflight = <<>>
  /\ clock \in TimeSteps
  /\ docHidden \in BOOLEAN
  /\ workerCreatable \in BOOLEAN
  /\ frameStart = 0
  /\ rafPending = 1
  /\ rafDue = 0
  /\ monDue = FALSE
  /\ cleanedUp = FALSE
  /\ listening = TRUE
  /\ tick = NoTick
  /\ reported = 0
  /\ modeCall = "none"
  /\ shownAt = 0

DoorNext ==
  \/ Door_rafTick
  \/ Door_workerTick
  \/ Door_timeoutTick
  \/ \E m \in Modes : Door_setPerformanceMode(m)
  \/ Door_handleResize
  \/ Door_handleVisibilityChange
  \/ Worker_onmessage
  \/ Worker_interval
  \/ Door_cleanup

-----------------------------------------------------------------------------
(* A session mounts one of the two scenes; the monitor is explored apart.  *)

Init == MonInit /\ (ModelInit \/ DoorInit)

Next ==
  \/ \E d \in TimeSteps : Advance(d)
  \/ BeginFrame
  \/ Monitor_rafTick
  \/ ModelNext
  \/ DoorNext

Spec == Init /\ [][Next]_vars

-----------------------------------------------------------------------------
(* Claims about the estimator.                                             *)

\* the blend 100 * (0.7 * rel + 0.3 * min(1, dc/200 + tri/500000)), written
\* out from the specification's formula for a given relative frame rate
SpecBlend(rel, dc, tri) ==
  RAdd(RMul(R(70), rel),
       RMul(R(30), RMin(R(1), RAdd(Norm(dc, 200), Norm(tri, 500000)))))

\* clamp(5, 100, x) of an integer or rational x
SpecClamp(x) == IF RLt(x, R(5)) THEN R(5) ELSE IF RLt(R(100), x) THEN R(100) ELSE x

\* the relative frame rate min(1, fps / max(1, peakFps)) of the specification
SpecRelativeFps(fps, peak) == RMin(R(1), RDiv(fps, RMax(R(1), peak)))

\* C1: every estimate leaves stats.gpu.utilization an integer between 5 and
\* 100, after any sequence of monitor operations.
C1_UtilizationInRange == gpu_utilization \in 5..100

\* C1 witness: an estimate made after frames were recorded hit the ceiling
C1_Witness ==
  /\ estimateFresh
  /\ Len(frameTimes) > 0
  /\ gpu_utilization = 100

\* C2 as stated: for fps >= 0 the reported utilization is
\* clamp(5, 100, round(100 * (0.7 * min(1, fps / max(1, peakFps)) + 0.3 * complexity))).
C2_Original ==
  (estimateFresh /\ stats_fps[1] >= 0) =>
    R(gpu_utilization) =
      SpecClamp(R(MathRound(SpecBlend(SpecRelativeFps(stats_fps, dynamicPeakFps),
                                      stats_drawCalls, stats_triangles))))

\* C2 amended: the frame rate is floored at 1 before the division, so the
\* reported utilization is clamp(5, 100, round(100 * (0.7 * min(1, max(1, fps) /
\* max(1, peakFps)) + 0.3 * complexity))).
C2_Amended ==
  estimateFresh =>
    R(gpu_utilization) =
      SpecClamp(R(MathRound(SpecBlend(
        SpecRelativeFps(RMax(R(1), stats_fps), dynamicPeakFps),
        stats_drawCalls, stats_triangles))))

\* C2 witness: an estimate at a frame rate strictly between 0 and 1 fps,
\* above the 5 % floor
C2_Witness ==
  /\ estimateFresh
  /\ stats_fps[1] > 0
  /\ RLt(stats_fps, R(1))
  /\ gpu_utilization > 5

\* the utilization before rounding, from the amended formula of C2
SpecUnrounded ==
  SpecClamp(SpecBlend(SpecRelativeFps(RMax(R(1), stats_fps), dynamicPeakFps),
                      stats_drawCalls, stats_triangles))

\* round(themeBase + 70 * u / 100) for a theme of the baseline table
SpecPower(theme, u) ==
  MathRound(RAdd(R(themeBaselineWatts[theme]), RDiv(RMul(R(70), u), R(100))))

\* C3 as stated: for a theme of the baseline table the reported power is
\* round(themeBase + 70 * utilizationPct / 100), utilizationPct being the
\* integer reported in the same snapshot.
C3_Original ==
  (estimateFresh /\ currentTheme \in DOMAIN themeBaselineWatts) =>
    gpu_power = SpecPower(currentTheme, R(gpu_utilization))

\* C3 amended: the reported power is round(themeBase + 70 * u / 100) for the
\* clamped utilization u before it is rounded (utilizationPct = round(u)); it
\* differs from the stated formula by at most 1 W.
C3_Amended ==
  (estimateFresh /\ currentTheme \in DOMAIN themeBaselineWatts) =>
    /\ gpu_utilization = MathRound(SpecUnrounded)
    /\ gpu_power = SpecPower(currentTheme, SpecUnrounded)
    /\ Abs(gpu_power - SpecPower(currentTheme, R(gpu_utilization))) <= 1

\* C3 witness: dark theme at exactly 50 % reports 44 W
C3_Witness ==
  /\ estimateFresh
  /\ currentTheme = "dark"
  /\ gpu_utilization = 50
  /\ gpu_power = 44

\* C22: after every estimate the temperature lies between 40 and 75.
C22_TemperatureInRange ==
  /\ RLe(R(40), gpu_temperature)
  /\ RLe(gpu_temperature, R(75))

\* C22 witness: an estimate made after frames were recorded, at full
\* utilization, reports the upper end, 75
C22_Witness ==
  /\ estimateFresh
  /\ Len(frameTimes) > 0
  /\ gpu_utilization = 100
  /\ gpu_temperature = R(75)

\* an estimate at the floor of 5 % reports 41.75
C22_FloorReached ==
  /\ estimateFresh
  /\ Len(frameTimes) > 0
  /\ gpu_utilization = 5
  /\ gpu_temperature = <<167, 4>>

\* 40 + 35 * u / 100
SpecTemperature(u) == RAdd(R(40), RDiv(RMul(R(35), u), R(100)))

\* C25 as stated: the temperature is 40 + 35 * utilizationPct / 100,
\* utilizationPct being the integer reported in the same snapshot.
C25_Original ==
  estimateFresh => gpu_temperature = SpecTemperature(R(gpu_utilization))

\* C25 amended: the temperature is 40 + 35 * u / 100 for the clamped
\* utilization u before it is rounded (utilizationPct = round(u)); it differs
\* from the stated formula by at most 0.175.
C25_Amended ==
  estimateFresh =>
    LET stated == SpecTemperature(R(gpu_utilization))
    IN  /\ gpu_utilization = MathRound(SpecUnrounded)
        /\ gpu_temperature = SpecTemperature(SpecUnrounded)
        /\ RLe(RSub(gpu_temperature, stated), <<7, 40>>)
        /\ RLe(RSub(stated, gpu_temperature), <<7, 40>>)

\* C25 witness: an estimate whose utilization is not a whole number, so that
\* the temperature is not the one the reported percentage gives
C25_Witness ==
  /\ estimateFresh
  /\ ~IsInt(SpecUnrounded)
  /\ gpu_temperature = SpecTemperature(SpecUnrounded)
  /\ gpu_temperature # SpecTemperature(R(gpu_utilization))

-----------------------------------------------------------------------------
(* Claims about the render cadence of the scenes.                          *)

\* lo <= x <= hi, or hi <= x <= lo
RBetween(x, lo, hi) ==
  \/ RLe(lo, x) /\ RLe(x, hi)
  \/ RLe(hi, x) /\ RLe(x, lo)

\* clamp(t, 0, 1)
Clamp01(t) == RMax(R(0), RMin(R(1), t))

\* the last step was a call of animate in the model scene
ModelTick == scene = "model" /\ tick.called

\* C4 as stated: a tick of the model scene renders if and only if
\* now - lastRenderTime >= the effective interval of that tick, lastRenderTime
\* being the value the tick found; lastRenderTime becomes now when it renders
\* and is unchanged when it does not.
C4_Original ==
  ModelTick =>
    /\ tick.rendered = RLe(tick.interval, R(tick.now - tick.prevLast))
    /\ lastRenderTime = IF tick.rendered THEN tick.now ELSE tick.prevLast

\* C4 amended: a tick of the model scene first sets an unset lastRenderTime to
\* now, then renders if and only if now - lastRenderTime >= the effective
\* interval of that tick; lastRenderTime becomes now when it renders and keeps
\* its (possibly just seeded) value when it does not.
C4_Amended ==
  ModelTick =>
    LET seeded == IF tick.prevLast = 0 THEN tick.now ELSE tick.prevLast
    IN  /\ tick.rendered = RLe(tick.interval, R(tick.now - seeded))
        /\ lastRenderTime = IF tick.rendered THEN tick.now ELSE seeded

\* a tick that renders exactly when the interval has elapsed
C4_Witness ==
  /\ ModelTick
  /\ tick.rendered
  /\ tick.prevLast # 0
  /\ R(tick.now - tick.prevLast) = tick.interval
  /\ lastRenderTime = tick.now

\* the last step was the first tick of a cadence loop that is not paused
FirstTick == tick.called /\ ~tick.paused /\ tick.prevLast = 0

\* C5 as stated: the first tick of either scene, which finds no
\* lastRenderTime, renders a frame and sets lastRenderTime to its timestamp.
C5_Original == FirstTick => tick.rendered /\ lastRenderTime = tick.now

\* C5 amended: the first tick of either scene sets lastRenderTime to its
\* timestamp and, the elapsed time being 0, renders only if the interval of
\* that tick is not positive; with a positive interval it renders nothing.
C5_Amended ==
  FirstTick =>
    /\ lastRenderTime = tick.now
    /\ tick.rendered = RLe(tick.interval, R(0))

\* a first tick that seeds lastRenderTime and renders nothing
C5_Witness ==
  /\ FirstTick
  /\ ~tick.rendered
  /\ RLt(R(0), tick.interval)
  /\ lastRenderTime = tick.now

\* timestamps at which the effective interval is asked for
ProbeTimes == {frameStart, clock, clock + rampDurationMs}

\* C6: in the model scene the effective interval is 1000/backgroundFps
\* whenever the page is hidden, and 1000/targetFps whenever the page is
\* visible and either it never went from hidden to visible or at least
\* rampDurationMs have passed since it last did.
C6_EffectiveInterval ==
  scene = "model" =>
    \A now \in ProbeTimes :
      /\ docHidden => getEffectiveIntervalMs(now) = Norm(1000, backgroundFps)
      /\ ~docHidden /\ (shownAt = 0 \/ now - shownAt >= rampDurationMs)
           => getEffectiveIntervalMs(now) = Norm(1000, targetFps)

\* the ramp is over after setTargetFps and setBackgroundFps changed the rates
C6_Witness ==
  /\ scene = "model"
  /\ ~docHidden
  /\ shownAt # 0
  /\ clock - shownAt >= rampDurationMs
  /\ targetFps = 2
  /\ backgroundFps = 1
  /\ getEffectiveIntervalMs(clock) = R(500)

\* C7: for a tick of the model scene after a hidden-to-visible transition,
\* also one whose timestamp is earlier than rampStartMs, the interval is
\* hidden + (visible - hidden) * t^2 * (3 - 2t) with t clamped to [0, 1], and
\* so lies between the hidden and the visible interval.
C7_RampClamped ==
  ModelTick /\ ~isHidden /\ rampStartMs # 0 =>
    LET t == Clamp01(Norm(tick.now - rampStartMs, rampDurationMs))
    IN  /\ tick.interval =
             RAdd(HiddenInterval,
                  RMul(RSub(frameIntervalMs, HiddenInterval), Smoothstep(t)))
        /\ RBetween(tick.interval, HiddenInterval, frameIntervalMs)

\* the renderer's pixel ratio under the cap of a mode
PresetPixelRatio(mode) ==
  RMin(devicePixelRatio, IF mode = "baseline" THEN <<3, 1>> ELSE <<3, 2>>)

PresetFps(mode) == IF mode = "baseline" THEN 60 ELSE 30

\* C8: a tick that follows setPerformanceMode(m), no other setter having been
\* called since, sees the target FPS, the frame interval and the pixel-ratio
\* cap of m, never a mixture of the two presets.
C8_TickSeesPreset ==
  tick.called /\ modeCall # "none" =>
    /\ targetFps = PresetFps(modeCall)
    /\ frameIntervalMs = Norm(1000, PresetFps(modeCall))
    /\ rendererPixelRatio = PresetPixelRatio(modeCall)

\* the last step was setPerformanceMode('optimized')
OptimizedStep == tick.op = "setPerformanceMode" /\ tick.mode = "optimized"

\* C9: setPerformanceMode('optimized') yields targetFps 30 and pixel-ratio cap
\* 1.5 from every configuration, in particular right after
\* setPerformanceMode('baseline'), and changes nothing when the mode set last
\* was already optimized.
C9_RoundTrip ==
  OptimizedStep =>
    /\ targetFps = 30
    /\ frameIntervalMs = Norm(1000, 30)
    /\ scene = "model" => pixelRatioClamp = <<3, 2>>
    /\ rendererPixelRatio = RMin(devicePixelRatio, <<3, 2>>)
    /\ tick.prevMode = "optimized" =>
         tick.before = <<targetFps, frameIntervalMs, pixelRatioClamp,
                         rendererPixelRatio, isPaused, pauseOnHidden>>

\* optimized was set right after baseline, in the model scene
C9_Witness ==
  /\ OptimizedStep
  /\ scene = "model"
  /\ tick.prevMode = "baseline"
  /\ tick.before[1] = 60
  /\ tick.before[3] = <<3, 1>>
  /\ pixelRatioClamp = <<3, 2>>

\* C10: a tick calls onFrameRendered exactly when it renders, with its own
\* timestamp, which is greater than the timestamp passed before; a tick that
\* renders nothing reports nothing.
C10_ReportsRenderedFrames ==
  tick.called =>
    /\ tick.reportedNow = tick.rendered
    /\ reported = IF tick.reportedNow THEN tick.now ELSE tick.prevReported
    /\ tick.reportedNow => tick.now > tick.prevReported

\* a tick of the timeout fallback renders and reports after a frame callback
\* reported an earlier frame
C10_Witness ==
  /\ tick.called
  /\ tick.source = "timeout"
  /\ tick.rendered
  /\ tick.prevReported # 0
  /\ reported = tick.now

-----------------------------------------------------------------------------
(* Teardown.                                                               *)

\* C11: once cleanup() has run nothing the scene registered is active: no
\* requestAnimationFrame callback of the render loop or of the monitor loop
\* is registered or runs, no worker interval or timeout fallback is set, no
\* worker tick is delivered, and the resize and visibilitychange listeners
\* are detached.
C11_NothingActiveAfterCleanup ==
  cleanedUp =>
    /\ ~listening
    /\ rafPending = 0 /\ rafDue = 0
    /\ ~tick.called
    /\ tick.op # "monitorLoop"
    /\ activeIntervals = 0
    /\ timers = <<>>

-----------------------------------------------------------------------------
(* The background ticker.                                                  *)

\* the worker handled a message of the given type in the last step
WorkerHandled(type) == tick.op = "worker.onmessage" /\ tick.type = type

\* C15: whatever start and stop messages the worker has handled, at most one
\* interval timer is set, and it is the one intervalId names; a start that
\* finds a timer set clears it before it sets the new one; a stop leaves no
\* timer; a stop that finds none changes nothing.
C15_AtMostOneInterval ==
  /\ activeIntervals = (IF intervalId THEN 1 ELSE 0)
  /\ WorkerHandled("start") => intervalId /\ activeIntervals = 1
  /\ WorkerHandled("stop") => ~intervalId /\ activeIntervals = 0
  /\ WorkerHandled("stop") /\ ~tick.hadInterval =>
       tick.intervalsBefore = activeIntervals

\* a start was handled while a timer was set
C15_Witness ==
  /\ WorkerHandled("start")
  /\ tick.hadInterval
  /\ tick.intervalsBefore = 1
  /\ activeIntervals = 1

\* a stop was handled while no timer was set
C15_StopWithNone ==
  /\ WorkerHandled("stop")
  /\ ~tick.hadInterval
  /\ activeIntervals = 0

-----------------------------------------------------------------------------
(* Consumers of the monitor: getStats().                                   *)

\* the fields of this.stats.gpu
GpuFields ==
  [utilization |-> gpu_utilization, temperature |-> gpu_temperature,
   power |-> gpu_power]

\* the numbers a consumer reads from the monitor's stats
MonitorStats ==
  <<stats_fps, stats_frameTime, stats_drawCalls, stats_triangles, GpuFields>>

\* getStats(): return { ...this.stats }. The spread copies the own properties
\* of this.stats: the numbers by value, the gpu object by reference. gpuThen
\* records what that object held when the copy was made.
StatsCopy ==
  [taken |-> TRUE, fps |-> stats_fps, frameTime |-> stats_frameTime,
   drawCalls |-> stats_drawCalls, triangles |-> stats_triangles,
   gpu |-> StatsGpu, gpuThen |-> GpuFields]

\* a consumer calls getStats() and keeps the object
getStats ==
  /\ snapshot' = StatsCopy
  /\ tick' = [called |-> FALSE, op |-> "getStats"]
  /\ UNCHANGED <<currentTheme, stats_fps, stats_frameTime, stats_drawCalls,
                 stats_triangles, gpu_utilization, gpu_temperature, gpu_power,
                 frameTimes, lastRenderNow, fpsSamples, dynamicPeakFps,
                 estimateFresh, dashboard, inserted, ui>>
  /\ UNCHANGED <<sceneVars, doorVars, workerVars, envVars, mountVars,
                 reported, modeCall, shownAt>>

\* what S.gpu reads for a snapshot S
ReadGpu(S) == IF S.gpu = StatsGpu THEN GpuFields ELSE S.gpu

\* values a consumer writes through a snapshot
WriteValues == {0, 99}

\* S.fps = v, for the snapshot S taken last
WriteSnapshotFps(v) ==
  /\ snapshot.taken
  /\ snapshot' = [snapshot EXCEPT !.fps = R(v)]
  /\ tick' = [called |-> FALSE, op |-> "S.fps =", monitorBefore |-> MonitorStats]
  /\ UNCHANGED <<currentTheme, stats_fps, stats_frameTime, stats_drawCalls,
                 stats_triangles, gpu_utilization, gpu_temperature, gpu_power,
                 frameTimes, lastRenderNow, fpsSamples, dynamicPeakFps,
                 estimateFresh, dashboard, inserted, ui>>
  /\ UNCHANGED <<sceneVars, doorVars, workerVars, envVars, mountVars,
                 reported, modeCall, shownAt>>

\* S.gpu.utilization = v, for the snapshot S taken last
WriteSnapshotGpu(v) ==
  /\ snapshot.taken
  /\ IF snapshot.gpu = StatsGpu
     THEN /\ gpu_utilization' = v
          /\ snapshot' = [snapshot EXCEPT !.gpuThen.utilization = v]
     ELSE /\ snapshot' = [snapshot EXCEPT !.gpu.utilization = v]
          /\ UNCHANGED gpu_utilization
  /\ estimateFresh' = FALSE
  /\ tick' = [called |-> FALSE, op |-> "S.gpu.utilization =",
              monitorBefore |-> MonitorStats]
  /\ UNCHANGED <<currentTheme, stats_fps, stats_frameTime, stats_drawCalls,
                 stats_triangles, gpu_temperature, gpu_power, frameTimes,
                 lastRenderNow, fpsSamples, dynamicPeakFps, dashboard,
                 inserted, ui>>
  /\ UNCHANGED <<sceneVars, doorVars, workerVars, envVars, mountVars,
                 reported, modeCall, shownAt>>

\* the timestamps and counters the monitor is given in SpecStats
StatsTimeStamps == {500, 1000}
StatsRenderInfos == {<<0, 0>>, <<250, 600000>>}

\* an operation of the monitor while a consumer holds a snapshot
StatsMonitorOp ==
  /\ \/ \E now \in StatsTimeStamps : onFrameRendered(now)
     \/ \E info \in StatsRenderInfos : monitorLoop(info)
  /\ tick' = NoTick
  /\ UNCHANGED <<consumerVars, sceneVars, doorVars, workerVars, envVars,
                 mountVars, reported, modeCall, shownAt>>

StatsNext ==
  \/ getStats
  \/ \E v \in WriteValues : WriteSnapshotFps(v)
  \/ \E v \in WriteValues : WriteSnapshotGpu(v)
  \/ StatsMonitorOp

\* the monitor and one consumer of getStats
SpecStats == MonOnlyInit /\ [][StatsNext]_vars

\* C12: a snapshot S returned by getStats is a defensive copy: what S.gpu
\* reads stays what it was when S was returned (or what the consumer wrote
\* there since) whatever the monitor does, and a write through S leaves the
\* monitor's stats as they were.
C12_DefensiveCopy ==
  /\ snapshot.taken => ReadGpu(snapshot) = snapshot.gpuThen
  /\ tick.op \in {"S.fps =", "S.gpu.utilization ="} =>
       MonitorStats = tick.monitorBefore

-----------------------------------------------------------------------------
(* Rolling windows over long runs: onFrameRendered and GPUDashboard.       *)

\* onFrameRendered is called MaxInserts times at most, and the dashboard polls
\* as often
MaxInserts == 126

\* the first IrregularFrames deltas are drawn from FrameDeltas, the later ones
\* are DefaultDelta: a frame every 200 ms, as often as the dashboard polls
IrregularFrames == 3
FrameDeltas == {0, 200, 500}
DefaultDelta == 200

\* the timestamp of the first frame
FirstStamp == 200

\* the dashboard's polls between two CO2 buckets: 5000 ms at one per 200 ms
BucketPolls == 25

\* sizes of the dashboard's buffers
fpsBufSize == 120
powerHistSize == 60

\* the last n entries of s
LastN(s, n) == IF Len(s) <= n THEN s ELSE SubSeq(s, Len(s) - n + 1, Len(s))

\* push of useRollingBuffer(size):
\* ref.current.push(value); if (ref.current.length > size) ref.current.shift()
useRollingBuffer_push(buf, value, size) ==
  LET a == Append(buf, value) IN IF Len(a) > size THEN Tail(a) ELSE a

\* a scene reports a frame d ms after the frame it reported last:
\* onFrameRendered(now), without any bound on the windows
Window_onFrameRendered(d) ==
  /\ inserted.polls = inserted.calls
  /\ inserted.calls < MaxInserts
  /\ d \in (IF inserted.calls = 0 THEN {DefaultDelta}
            ELSE IF inserted.calls <= IrregularFrames THEN FrameDeltas
            ELSE {DefaultDelta})
  /\ LET now    == IF inserted.calls = 0 THEN FirstStamp ELSE lastRenderNow + d
         m      == OnFrame(FrameState, now)
         deltas == IF inserted.calls = 0 THEN inserted.frameTimes
                   ELSE Append(inserted.frameTimes, d)
         stored == inserted.calls # 0
                   /\ SeqSum(LastN(deltas, frameTimesCap)) # 0
     IN  /\ SetFrameState(m)
         /\ inserted' = [inserted EXCEPT
                           !.calls = @ + 1,
                           !.frameTimes = deltas,
                           !.fpsSamples = IF stored THEN Append(@, m.fps) ELSE @]
         /\ tick' = [called |-> FALSE, op |-> "onFrameRendered",
                     first |-> inserted.calls = 0, now |-> now,
                     stored |-> stored, before |-> FrameState]
  /\ estimateFresh' = FALSE
  /\ UNCHANGED <<currentTheme, stats_drawCalls, stats_triangles,
                 gpu_utilization, gpu_temperature, gpu_power, snapshot,
                 dashboard, ui>>
  /\ UNCHANGED <<sceneVars, doorVars, workerVars, envVars, mountVars,
                 reported, modeCall, shownAt>>

\* the dashboard's interval fires: s = getStats(), setStats(s),
\* pushFps(s.fps || 0), and the power sample goes to the bucket, which is
\* averaged into powerHistRef once 5000 ms have passed. utilBuf and tempBuf
\* are filled as fpsBuf is.
Dashboard_poll ==
  /\ inserted.polls < inserted.calls
  /\ snapshot' = StatsCopy
  /\ LET samples  == Append(dashboard.samples, gpu_power)
         closes   == dashboard.sinceBucket + 1 >= BucketPolls
         avgPower == Norm(SeqSum(samples), Len(samples))
     IN  /\ dashboard' =
              [fpsBuf |-> useRollingBuffer_push(dashboard.fpsBuf, stats_fps,
                                                fpsBufSize),
               powerHist |-> IF closes
                             THEN useRollingBuffer_push(dashboard.powerHist,
                                                        avgPower, powerHistSize)
                             ELSE dashboard.powerHist,
               samples |-> IF closes THEN <<>> ELSE samples,
               sinceBucket |-> IF closes THEN 0 ELSE dashboard.sinceBucket + 1]
         /\ inserted' = [inserted EXCEPT
                           !.polls = @ + 1,
                           !.fpsBuf = Append(@, stats_fps),
                           !.powerHist = IF closes THEN Append(@, avgPower)
                                         ELSE @]
  /\ tick' = [called |-> FALSE, op |-> "dashboard.poll"]
  /\ UNCHANGED <<currentTheme, stats_fps, stats_frameTime, stats_drawCalls,
                 stats_triangles, gpu_utilization, gpu_temperature, gpu_power,
                 frameTimes, lastRenderNow, fpsSamples, dynamicPeakFps,
                 estimateFresh, ui>>
  /\ UNCHANGED <<sceneVars, doorVars, workerVars, envVars, mountVars,
                 reported, modeCall, shownAt>>

WindowNext ==
  \/ \E d \in FrameDeltas : Window_onFrameRendered(d)
  \/ Dashboard_poll

\* a monitor and a dashboard from their construction on
SpecWindow == MonOnlyInit /\ [][WindowNext]_vars

\* the last step was a call of onFrameRendered, the first one or a later one
FrameCall(first) == tick.op = "onFrameRendered" /\ tick.first = first

\* C16: after any number of insertions every rolling window is within its
\* capacity (frameTimes 60, fpsSamples 120, the dashboard's buffers their
\* sizes) and holds the values inserted last, in the order of insertion: the
\* values evicted are the oldest.
C16_WindowsHoldLatest ==
  /\ Len(frameTimes) <= 60
  /\ frameTimes = LastN(inserted.frameTimes, 60)
  /\ Len(fpsSamples) <= 120
  /\ fpsSamples = LastN(inserted.fpsSamples, 120)
  /\ Len(dashboard.fpsBuf) <= fpsBufSize
  /\ dashboard.fpsBuf = LastN(inserted.fpsBuf, fpsBufSize)
  /\ Len(dashboard.powerHist) <= powerHistSize
  /\ dashboard.powerHist = LastN(inserted.powerHist, powerHistSize)

\* every window of the monitor and the dashboard's fpsBuf have evicted
\* values, among them a delta and an fps unlike the ones that followed
C16_Witness ==
  /\ Len(inserted.frameTimes) > 60
  /\ Len(inserted.fpsSamples) > 120
  /\ Len(inserted.fpsBuf) > fpsBufSize
  /\ inserted.frameTimes[1] # frameTimes[1]
  /\ inserted.fpsSamples[1] # fpsSamples[1]
  /\ inserted.fpsBuf[1] # dashboard.fpsBuf[1]

\* C17: after every call of onFrameRendered but the first, stats.frameTime is
\* the mean of the latest deltas, 60 at most, and stats.fps is 1000 over that
\* mean; when the mean is zero nothing is stored: frameTime, fps and the peak
\* are what they were before the call.
C17_MeanOfLatestDeltas ==
  FrameCall(FALSE) =>
    LET w    == LastN(inserted.frameTimes, 60)
        mean == Norm(SeqSum(w), Len(w))
    IN  IF mean # R(0)
        THEN /\ stats_frameTime = mean
             /\ stats_fps = RDiv(R(1000), mean)
        ELSE /\ stats_frameTime = tick.before.frameTime
             /\ stats_fps = tick.before.fps
             /\ dynamicPeakFps = tick.before.dynamicPeakFps

\* a call found the window full, and the delta it evicted was not like the
\* others: the mean is taken over the 60 that remain
C17_Witness ==
  /\ FrameCall(FALSE)
  /\ Len(inserted.frameTimes) = 61
  /\ inserted.frameTimes[1] = 500
  /\ stats_frameTime = R(DefaultDelta)

\* a call whose mean was zero stored nothing
C17_SkipReached ==
  /\ FrameCall(FALSE)
  /\ SeqSum(frameTimes) = 0
  /\ stats_fps = R(0)

\* C18: after every call of onFrameRendered that stores an fps,
\* dynamicPeakFps is the greatest of the latest fps values, 120 at most; and
\* in every state dynamicPeakFps is at least stats.fps.
C18_PeakOfLatestFps ==
  /\ FrameCall(FALSE) /\ tick.stored =>
       dynamicPeakFps = RSeqMax(LastN(inserted.fpsSamples, 120))
  /\ RLe(stats_fps, dynamicPeakFps)

\* the greatest fps ever stored has left the window and the peak has fallen
C18_Witness ==
  /\ FrameCall(FALSE)
  /\ tick.stored
  /\ Len(inserted.fpsSamples) > 120
  /\ RLt(dynamicPeakFps, RSeqMax(inserted.fpsSamples))
  /\ RLt(dynamicPeakFps, tick.before.dynamicPeakFps)

\* C19: the first call of onFrameRendered after construction keeps its
\* timestamp and does nothing else: both windows stay empty, and frameTime,
\* fps and dynamicPeakFps are what the constructor set.
C19_FirstCallSeeds ==
  FrameCall(TRUE) =>
    /\ lastRenderNow = tick.now
    /\ frameTimes = <<>>
    /\ fpsSamples = <<>>
    /\ stats_frameTime = tick.before.frameTime
    /\ stats_fps = tick.before.fps
    /\ dynamicPeakFps = tick.before.dynamicPeakFps
    /\ dynamicPeakFps = R(initialPeakFps)

\* the first call was made
C19_Witness ==
  /\ FrameCall(TRUE)
  /\ tick.before.lastRenderNow = 0
  /\ lastRenderNow = FirstStamp
  /\ inserted.calls = 1

-----------------------------------------------------------------------------
(* ThreeSceneWithGPU: toggleMode, measureAverages and runComparison.       *)

\* setInterval(..., 100) of measureAverages, setTimeout(r, 300) and
\* measureAverages(2000) of runComparison
PollMs == 100
SettleMs == 300
CompareWindowMs == 2000

\* the clock is followed up to MaxCompareClock ms, at most MaxRuns calls of
\* runComparison or measureAverages are made, and at most MaxToggles of
\* toggleMode
MaxCompareClock == 5200
MaxRuns == 2
MaxToggles == 1

\* windowMs handed to measureAverages when it is called on its own
WindowInputs == {0, 50, 100, 250}

\* the monitor's own fields
monitorFields ==
  <<currentTheme, stats_fps, stats_frameTime, stats_drawCalls, stats_triangles,
    gpu_utilization, gpu_temperature, gpu_power, frameTimes, lastRenderNow,
    fpsSamples, dynamicPeakFps, estimateFresh>>

\* what the comparison leaves alone of the scene and its environment
sceneRest ==
  <<scene, lastRenderTime, backgroundFps, isHidden, rampStartMs, doorVars,
    workerVars, docHidden, workerCreatable, frameStart, rafPending, rafDue,
    mountVars, reported, shownAt>>

\* the cadence settings setPerformanceMode assigns
cadence ==
  <<targetFps, frameIntervalMs, pixelRatioClamp, rendererPixelRatio, modeCall>>

\* samples.reduce((a, b) => a + b, 0) / samples.length || 0
AverageOrZero(samples) ==
  LET avg == IF samples = <<>> THEN NaN
             ELSE Norm(SeqSum(samples), Len(samples))
  IN  IF avg = NaN \/ avg = R(0) THEN R(0) ELSE avg

\* resolve({ utilization: Math.round(avgUtil), power: Math.round(avgPower) })
MeasureResult(samples) ==
  [measured |-> TRUE,
   utilization |->
     MathRound(AverageOrZero([i \in 1..Len(samples) |-> samples[i].utilization])),
   power |->
     MathRound(AverageOrZero([i \in 1..Len(samples) |-> samples[i].power]))]

\* performance.now() - start >= windowMs
WindowElapsed(run, now) == now - run.start >= run.windowMs

\* mutant: the interval's callback looks at the clock before it samples
PollWindow_CheckFirst(run, s, now) ==
  IF WindowElapsed(run, now) THEN [run EXCEPT !.resolved = TRUE]
  ELSE [run EXCEPT !.samples = Append(@, s)]

\* the interval's callback of measureAverages: the sample is pushed, then the
\* clock is looked at
PollWindow(run, s, now) ==
  [run EXCEPT !.samples = Append(@, s),
              !.resolved = WindowElapsed(run, now)]

\* measureAverages(windowMs) called at `now`: start = performance.now() and
\* the interval is set
StartWindow(phase, windowMs, now) ==
  [pc |-> "measure", phase |-> phase, windowMs |-> windowMs, start |-> now,
   due |-> now + PollMs, samples |-> <<>>, resolved |-> FALSE,
   strayed |-> FALSE]

\* await new Promise(r => setTimeout(r, 300)) entered at `now`
StartSettle(phase, now) ==
  [pc |-> "settle", phase |-> phase, windowMs |-> CompareWindowMs,
   start |-> 0, due |-> now + SettleMs, samples |-> <<>>, resolved |-> FALSE,
   strayed |-> FALSE]

\* a run that has returned
Done(run) == [run EXCEPT !.pc = "done", !.samples = <<>>, !.due = 0]

\* a timer of run i is due
TimerDue(i) == ui.runs[i].pc # "done" /\ ui.runs[i].due <= clock

\* time passes once the timers that were due have fired
TimePasses(limit) ==
  /\ clock + PollMs <= limit
  /\ \A i \in 1..Len(ui.runs) : ~TimerDue(i)
  /\ clock' = clock + PollMs
  /\ tick' = NoTick
  /\ UNCHANGED <<monitorFields, snapshot, dashboard, inserted, ui, cadence,
                 sceneRest>>

Compare_advance == TimePasses(MaxCompareClock)

\* toggleMode: the Mode button
UI_toggleMode ==
  /\ ui.toggles < MaxToggles
  /\ LET next == IF ui.mode = "optimized" THEN "baseline" ELSE "optimized"
     IN  /\ Model_applyMode(next)
         /\ ui' = [ui EXCEPT !.mode = next, !.toggles = @ + 1]
  /\ tick' = [called |-> FALSE, op |-> "toggleMode"]
  /\ UNCHANGED <<monitorFields, snapshot, dashboard, inserted, clock, sceneRest>>

\* runComparison up to its first await: the Compare button
UI_runComparison ==
  /\ Len(ui.runs) < MaxRuns
  /\ Model_applyMode("baseline")
  /\ ui' = [ui EXCEPT !.runs = Append(@, StartSettle("baseline", clock))]
  /\ tick' = [called |-> FALSE, op |-> "runComparison"]
  /\ UNCHANGED <<monitorFields, snapshot, dashboard, inserted, clock, sceneRest>>

\* measureAverages is called on its own MaxMeasures times at most
MaxMeasures == 1

\* measureAverages(windowMs) called on its own
UI_measureAverages(windowMs) ==
  /\ Len(ui.runs) < MaxMeasures
  /\ ui' = [ui EXCEPT !.runs = Append(@, StartWindow("single", windowMs, clock))]
  /\ tick' = [called |-> FALSE, op |-> "measureAverages"]
  /\ UNCHANGED <<monitorFields, snapshot, dashboard, inserted, clock, cadence,
                 sceneRest>>

\* the settle timeout of run i fires and runComparison goes on to
\* measureAverages(2000)
Run_settled(i) ==
  /\ ui.runs[i].pc = "settle"
  /\ TimerDue(i)
  /\ ui' = [ui EXCEPT !.runs[i] = StartWindow(ui.runs[i].phase,
                                              CompareWindowMs, clock)]
  /\ tick' = [called |-> FALSE, op |-> "settled"]
  /\ UNCHANGED <<monitorFields, snapshot, dashboard, inserted, clock, cadence,
                 sceneRest>>

\* the interval of run i's measureAverages fires; when the window has elapsed
\* the promise resolves and the caller goes on in the same task: runComparison
\* stores the baseline averages, sets the optimized mode and settles, or
\* stores the optimized averages, calls setMode('optimized') and returns
Run_poll(i) ==
  /\ ui.runs[i].pc = "measure"
  /\ TimerDue(i)
  /\ LET run == ui.runs[i]
         s   == [utilization |-> gpu_utilization, power |-> gpu_power]
         w   == [PollWindow(run, s, clock) EXCEPT
                   !.strayed = @ \/ (run.phase # "single" /\ modeCall # run.phase)]
         result == MeasureResult(w.samples)
     IN  IF ~w.resolved
         THEN /\ ui' = [ui EXCEPT !.runs[i] = [w EXCEPT !.due = run.due + PollMs]]
              /\ tick' = [called |-> FALSE, op |-> "poll"]
              /\ UNCHANGED cadence
         ELSE IF run.phase = "baseline"
         THEN /\ Model_applyMode("optimized")
              /\ ui' = [ui EXCEPT
                          !.baselineAvg = result,
                          !.runs[i] = [StartSettle("optimized", clock)
                                         EXCEPT !.strayed = w.strayed]]
              /\ tick' = [called |-> FALSE, op |-> "measureAverages.resolved",
                          windowMs |-> run.windowMs, samples |-> w.samples,
                          result |-> result]
         ELSE IF run.phase = "optimized"
         THEN /\ ui' = [ui EXCEPT !.optimizedAvg = result,
                                  !.mode = "optimized",
                                  !.runs[i] = Done(w)]
              /\ tick' = [called |-> FALSE, op |-> "runComparison.done",
                          windowMs |-> run.windowMs, samples |-> w.samples,
                          result |-> result]
              /\ UNCHANGED cadence
         ELSE /\ ui' = [ui EXCEPT !.runs[i] = Done(w)]
              /\ tick' = [called |-> FALSE, op |-> "measureAverages.resolved",
                          windowMs |-> run.windowMs, samples |-> w.samples,
                          result |-> result]
              /\ UNCHANGED cadence
  /\ UNCHANGED <<monitorFields, snapshot, dashboard, inserted, clock, sceneRest>>

CompareNext ==
  \/ Compare_advance
  \/ UI_toggleMode
  \/ UI_runComparison
  \/ \E i \in 1..MaxRuns : i <= Len(ui.runs) /\ Run_settled(i)
  \/ \E i \in 1..MaxRuns : i <= Len(ui.runs) /\ Run_poll(i)

\* the page mounts the monitor and the model scene
PageInit == MonInit /\ ModelInit

\* the model scene's page with its Mode and Compare buttons
SpecCompare == PageInit /\ [][CompareNext]_vars

\* measureAverages on its own is followed up to MaxMeasureClock ms
MaxMeasureClock == 1000

Measure_advance == TimePasses(MaxMeasureClock)

\* the monitor loop runs between two polls
Measure_monitorLoop(info) ==
  /\ monitorLoop(info)
  /\ tick' = NoTick
  /\ UNCHANGED <<snapshot, dashboard, inserted, ui, clock, cadence, sceneRest>>

MeasureNext ==
  \/ Measure_advance
  \/ \E w \in WindowInputs : UI_measureAverages(w)
  \/ \E i \in 1..MaxRuns : i <= Len(ui.runs) /\ Run_poll(i)
  \/ \E info \in StatsRenderInfos : Measure_monitorLoop(info)

\* measureAverages called with any window while the monitor runs
SpecMeasure == PageInit /\ [][MeasureNext]_vars

\* measureAverages called on its own has resolved in the last step
Resolved == tick.op = "measureAverages.resolved"

\* C20 as stated: a window shorter than the polling period of 100 ms resolves
\* to utilization 0 and power 0, no sample having been taken.
C20_Original ==
  Resolved /\ tick.windowMs < PollMs =>
    /\ tick.samples = <<>>
    /\ tick.result.utilization = 0
    /\ tick.result.power = 0

\* C20 amended: measureAverages takes a sample at every poll before it looks
\* at the clock, so it resolves with at least one sample and its result is
\* the rounded mean of the samples, a number; a window shorter than the
\* polling period resolves at the first poll to the utilization and power of
\* the one sample taken then.
C20_Amended ==
  Resolved =>
    /\ Len(tick.samples) >= 1
    /\ tick.result.utilization \in Int
    /\ tick.result.power \in Int
    /\ tick.result.utilization =
         MathRound(Norm(SeqSum([i \in 1..Len(tick.samples) |->
                                  tick.samples[i].utilization]),
                        Len(tick.samples)))
    /\ tick.windowMs < PollMs =>
         /\ Len(tick.samples) = 1
         /\ tick.result.utilization = tick.samples[1].utilization
         /\ tick.result.power = tick.samples[1].power

\* a window of 50 ms has resolved with one sample, not with 0
C20_Witness ==
  /\ Resolved
  /\ tick.windowMs = 50
  /\ Len(tick.samples) = 1
  /\ tick.result.utilization > 0
  /\ tick.result.power > 0

\* C13: when a run of runComparison completes, the scene's cadence settings
\* are the optimized preset and the mode shown is optimized, whatever
\* toggleMode or another runComparison did while the run was waiting.
C13_EndsOptimized ==
  tick.op = "runComparison.done" =>
    /\ modeCall = "optimized"
    /\ targetFps = ModePreset("optimized").fps
    /\ frameIntervalMs = Norm(1000, 30)
    /\ pixelRatioClamp = <<3, 2>>
    /\ ui.mode = "optimized"

\* the runs whose measureAverages window is open
OpenWindows == {i \in 1..Len(ui.runs) : ui.runs[i].pc = "measure"}

\* C14: at most one sampling window of measureAverages is open at any time,
\* also when Compare is pressed during a run, and no sample of a phase is
\* taken while the scene is in another mode than the phase's.
C14_PhasesNeverOverlap ==
  /\ Cardinality(OpenWindows) <= 1
  /\ \A i \in 1..Len(ui.runs) : ~ui.runs[i].strayed

-----------------------------------------------------------------------------
(* The theme's baseline in the power estimate.                             *)

\* identifiers handed to setTheme: the table's keys, the unknown "sepia", the
\* falsy "" and a name that Object.prototype defines
ThemeArgs == ThemeInputs \cup InheritedNames

\* the identifier the last call of setTheme was given, <<>> before any call
AskedTheme == IF tick.op \in {"setTheme", "themed"} THEN tick.theme ELSE <<>>

\* setTheme(th), as ThreeDModelScene's setTheme calls it
Theme_setTheme(th) ==
  /\ setTheme(th)
  /\ tick' = [called |-> FALSE, op |-> "setTheme", theme |-> <<th>>,
              estimated |-> FALSE]
  /\ UNCHANGED <<consumerVars, sceneVars, doorVars, workerVars, envVars,
                 mountVars, reported, modeCall, shownAt>>

\* the monitor loop estimates with the theme in force
Theme_monitorLoop(info) ==
  /\ monitorLoop(info)
  /\ tick' = [called |-> FALSE, op |-> "themed", theme |-> AskedTheme,
              estimated |-> TRUE]
  /\ UNCHANGED <<consumerVars, sceneVars, doorVars, workerVars, envVars,
                 mountVars, reported, modeCall, shownAt>>

\* a frame is reported between two estimates
Theme_onFrameRendered(now) ==
  /\ onFrameRendered(now)
  /\ tick' = [called |-> FALSE, op |-> "themed", theme |-> AskedTheme,
              estimated |-> FALSE]
  /\ UNCHANGED <<consumerVars, sceneVars, doorVars, workerVars, envVars,
                 mountVars, reported, modeCall, shownAt>>

ThemeNext ==
  \/ \E th \in ThemeArgs : Theme_setTheme(th)
  \/ \E info \in StatsRenderInfos : Theme_monitorLoop(info)
  \/ \E now \in StatsTimeStamps : Theme_onFrameRendered(now)

\* the monitor while the theme is switched
SpecTheme == MonOnlyInit /\ [][ThemeNext]_vars

\* round(base + 70 * u / 100) for the clamped utilization u before rounding
SpecPowerWith(base) ==
  MathRound(RAdd(R(base), RDiv(RMul(R(70), SpecUnrounded), R(100))))

\* the last step was an estimate, made after setTheme(th)
EstimatedAfter(th) ==
  /\ tick.op = "themed"
  /\ tick.estimated
  /\ tick.theme = <<th>>

C21_UnknownReached ==
  /\ EstimatedAfter("sepia")
  /\ currentTheme = "sepia"
  /\ gpu_power = SpecPowerWith(10)

\* an estimate after setTheme('constructor') stored a power that is no number
C21_InheritedReached == EstimatedAfter("constructor") /\ gpu_power = NaN

-----------------------------------------------------------------------------
(* The cadence mode and the renderer's pixel ratio.                        *)

\* the door scene's mode, read from its pause-on-hidden policy
Door_mode == IF pauseOnHidden THEN "optimized" ELSE "baseline"

\* a step that is not a call of setPerformanceMode, in the door scene
Door_otherStep == scene = "door" /\ tick'.op # "setPerformanceMode"

\* a render tick or a visibility change of the model scene
Model_tickOrVisibility ==
  scene = "model" /\ (tick'.called \/ docHidden' # docHidden)

\* C23: the mode's settings change only inside setPerformanceMode (render
\* ticks, worker ticks, visibility changes and window resize leave them as
\* they are), and the pixel ratio given to the renderer is always the one of
\* the current mode: capped at 1.5 in optimized mode, at 3 in baseline mode.
C23_SettingsFollowMode ==
  [][/\ Door_otherStep =>
          /\ targetFps' = targetFps
          /\ frameIntervalMs' = frameIntervalMs
          /\ pauseOnHidden' = pauseOnHidden
     /\ Model_tickOrVisibility =>
          /\ targetFps' = targetFps
          /\ frameIntervalMs' = frameIntervalMs
          /\ pixelRatioClamp' = pixelRatioClamp
     /\ scene = "door" =>
          rendererPixelRatio' = Door_pixelRatio(Door_mode')
     /\ (scene = "model" /\ modeCall' \in Modes) =>
          /\ pixelRatioClamp' = ModePreset(modeCall').clamp
          /\ rendererPixelRatio' = applyRendererSizing(pixelRatioClamp')]_vars

\* a window resize in baseline mode left the renderer with the optimized cap
C23_ResizeInBaseline ==
  /\ scene = "door"
  /\ ~pauseOnHidden
  /\ targetFps = 60
  /\ rendererPixelRatio = Door_pixelRatio("optimized")
  /\ rendererPixelRatio # Door_pixelRatio("baseline")

-----------------------------------------------------------------------------
(* The savings readout of ThreeSceneWithGPU, in JavaScript's arithmetic.   *)
(* A positive Number is [e, m]: m is the 53-bit significand, most          *)
(* significant bit first and equal to 1, and e the exponent of that bit,   *)
(* so that the value is the sum of m[i] * 2^(e + 1 - i).                   *)

\* bits of the significand of a Number
SignificandBits == 53

\* <<n', d', e>> with n / d = (n' / d') * 2^e and d' <= n' < 2 * d'
RECURSIVE ScaleUp(_, _, _)
ScaleUp(n, d, e) == IF n >= d THEN <<n, d, e>> ELSE ScaleUp(2 * n, d, e - 1)

RECURSIVE ScaleDown(_, _, _)
ScaleDown(n, d, e) ==
  IF n < 2 * d THEN <<n, d, e>> ELSE ScaleDown(n, 2 * d, e + 1)

Normalized(n, d) == IF n < d THEN ScaleUp(n, d, 0) ELSE ScaleDown(n, d, 0)

\* 2^k modulo d, by repeated squaring
RECURSIVE Pow2Mod(_, _)
Pow2Mod(k, d) ==
  IF k = 0 THEN 1 % d
  ELSE LET h == Pow2Mod(k \div 2, d)
       IN  (h * h * (IF k % 2 = 1 THEN 2 ELSE 1)) % d

\* the remainder that long division of r by d (r < d) leaves after k bits
DivRem(r, d, k) == (r * Pow2Mod(k, d)) % d

\* the first k bits of the binary fraction r / d (r < d), by long division:
\* bit i is 1 when twice the remainder before it reaches d
DivBits(r, d, k) ==
  [i \in 1..k |-> IF 2 * DivRem(r, d, i - 1) >= d THEN 1 ELSE 0]

\* the bit string s plus one, of the same length (s is not all ones): the
\* last 0 becomes 1 and the 1s after it become 0
Increment(s) ==
  LET j == CHOOSE i \in 1..Len(s) :
             s[i] = 0 /\ \A k \in (i + 1)..Len(s) : s[k] = 1
  IN  [i \in 1..Len(s) |-> IF i < j THEN s[i] ELSE IF i = j THEN 1 ELSE 0]

\* round to nearest, ties to even: the bit string s (s[1] = 1, at least 53
\* bits) whose first bit has exponent e, followed by bits that are not all 0
\* exactly when `sticky`, becomes a Number
RoundToNumber(e, s, sticky) ==
  LET keep  == SubSeq(s, 1, SignificandBits)
      guard == IF Len(s) > SignificandBits THEN s[SignificandBits + 1] ELSE 0
      rest  == sticky \/ \E i \in (SignificandBits + 2)..Len(s) : s[i] = 1
      up    == guard = 1 /\ (rest \/ keep[SignificandBits] = 1)
  IN  IF ~up THEN [e |-> e, m |-> keep]
      ELSE IF \A i \in 1..SignificandBits : keep[i] = 1
      THEN [e |-> e + 1,
            m |-> [i \in 1..SignificandBits |-> IF i = 1 THEN 1 ELSE 0]]
      ELSE [e |-> e, m |-> Increment(keep)]

\* n / d for positive integers n and d, as JavaScript computes it
FloatDiv(n, d) ==
  LET nd == Normalized(n, d)
      r  == nd[1] - nd[2]
  IN  RoundToNumber(nd[3], <<1>> \o DivBits(r, nd[2], SignificandBits),
                    DivRem(r, nd[2], SignificandBits) # 0)

\* the natural number, below 2^30, whose binary digits are s
IntOf(s) ==
  SumRange([k \in 1..Len(s) |-> s[k] * 2^(Len(s) - k)], 1, Len(s))

\* the n binary digits of the natural number v < 2^n
BitsN(v, n) == [i \in 1..n |-> (v \div 2^(n - i)) % 2]

\* the binary digits of the natural number v < 2^30, none for 0
BitsOf(v) ==
  BitsN(v, CHOOSE n \in 0..30 : v < 2^n /\ (n > 0 => v >= 2^(n - 1)))

\* the product is computed on pieces of LimbBits bits of the significand
LimbBits == 18

\* the bit string of s * c + carry for a small positive integer c, exactly:
\* the lowest LimbBits bits are multiplied first and what exceeds them is
\* carried into the bits above
RECURSIVE MulBits(_, _, _)
MulBits(s, c, carry) ==
  IF Len(s) <= LimbBits THEN BitsOf(IntOf(s) * c + carry)
  ELSE LET lo == SubSeq(s, Len(s) - LimbBits + 1, Len(s))
           v  == IntOf(lo) * c + carry
       IN  MulBits(SubSeq(s, 1, Len(s) - LimbBits), c, v \div 2^LimbBits)
             \o BitsN(v % 2^LimbBits, LimbBits)

\* x * c for a Number x and a small positive integer c, as JavaScript
\* computes it: the exact product, rounded
FloatMul(x, c) ==
  LET p == MulBits(x.m, c, 0)
  IN  RoundToNumber(x.e + Len(p) - SignificandBits, p, FALSE)

\* Math.round(x) for a positive Number x below 2^31: the integer part, plus
\* one when the fraction is at least a half
FloatRound(x) ==
  IF x.e < -1 THEN 0
  ELSE IntOf(SubSeq(x.m, 1, x.e + 1))
         + (IF x.e + 2 <= SignificandBits THEN x.m[x.e + 2] ELSE 0)

\* Math.max(0, baselinePowerAvg - optimizedPowerAvg)
WattsSaved(baselinePowerAvg, optimizedPowerAvg) ==
  IF baselinePowerAvg - optimizedPowerAvg > 0
  THEN baselinePowerAvg - optimizedPowerAvg ELSE 0

\* Math.round(wattsSaved * gramsPerWh), gramsPerWh being the Number 0.4
GramsPerHour(wattsSaved) ==
  IF wattsSaved = 0 THEN 0 ELSE FloatRound(FloatMul(FloatDiv(2, 5), wattsSaved))

\* baselinePowerAvg > 0 ? Math.round((wattsSaved / baselinePowerAvg) * 100) : 0
SavedPct(wattsSaved, baselinePowerAvg) ==
  IF baselinePowerAvg > 0 /\ wattsSaved > 0
  THEN FloatRound(FloatMul(FloatDiv(wattsSaved, baselinePowerAvg), 100))
  ELSE 0

\* the readout "Savings: ~W W (P%) (~G g CO2e/hour)"
SavingsReadout(baselinePowerAvg, optimizedPowerAvg) ==
  LET wattsSaved == WattsSaved(baselinePowerAvg, optimizedPowerAvg)
  IN  [wattsSaved   |-> wattsSaved,
       gramsPerHour |-> GramsPerHour(wattsSaved),
       pct          |-> SavedPct(wattsSaved, baselinePowerAvg)]

\* the averages are explored up to MaxAverage watts
MaxAverage == 50

\* the integer averages a comparison run can have stored
PowerAverages == 0..MaxAverage

\* the page as mounted, before any comparison
SavingsInit == MonInit /\ ModelInit

\* setBaselinePowerAvg(base.power); setOptimizedPowerAvg(opt.power): a
\* comparison run, the first one on this page, stores the two averages it
\* measured
Savings_stored(b, o) ==
  /\ ~ui.baselineAvg.measured
  /\ ui' = [ui EXCEPT
              !.baselineAvg = [measured |-> TRUE, utilization |-> 0, power |-> b],
              !.optimizedAvg = [measured |-> TRUE, utilization |-> 0, power |-> o]]
  /\ tick' = [called |-> FALSE, op |-> "stored"]
  /\ UNCHANGED <<currentTheme, stats_fps, stats_frameTime, stats_drawCalls,
                 stats_triangles, gpu_utilization, gpu_temperature, gpu_power,
                 frameTimes, lastRenderNow, fpsSamples, dynamicPeakFps,
                 estimateFresh, snapshot, dashboard, inserted>>
  /\ UNCHANGED <<sceneVars, doorVars, workerVars, envVars, mountVars,
                 reported, modeCall, shownAt>>

\* the component renders: with both averages stored it shows the readout
Savings_render ==
  /\ ui.baselineAvg.measured /\ ui.optimizedAvg.measured
  /\ tick' = [called |-> FALSE, op |-> "savings",
              readout |-> SavingsReadout(ui.baselineAvg.power,
                                         ui.optimizedAvg.power)]
  /\ UNCHANGED <<monVars, sceneVars, doorVars, workerVars, envVars,
                 mountVars, reported, modeCall, shownAt>>

SavingsNext ==
  \/ \E b \in PowerAverages, o \in PowerAverages : Savings_stored(b, o)
  \/ Savings_render

\* the savings readout for every pair of stored averages
SpecSavings == SavingsInit /\ [][SavingsNext]_vars

\* the readout is on screen
SavingsShown == tick.op = "savings"

\* C24: for integer averages with baselinePower > 0 the readout shows
\* wattsSaved = max(0, baselinePower - optimizedPower), the percentage
\* round(100 * wattsSaved / baselinePower) and round(0.4 * wattsSaved) grams
\* of CO2 per hour, none of them negative.
C24_SavingsReadout ==
  (SavingsShown /\ ui.baselineAvg.power > 0) =>
    LET b == ui.baselineAvg.power
        o == ui.optimizedAvg.power
        r == tick.readout
    IN  /\ r.wattsSaved = (IF b - o > 0 THEN b - o ELSE 0)
        /\ r.pct = MathRound(Norm(100 * r.wattsSaved, b))
        /\ r.gramsPerHour = MathRound(Norm(2 * r.wattsSaved, 5))
        /\ r.wattsSaved >= 0 /\ r.pct >= 0 /\ r.gramsPerHour >= 0

\* 50 W against 30 W shows 20 W, 40 % and 8 g
C24_Scenario ==
  /\ SavingsShown
  /\ ui.baselineAvg.power = 50 /\ ui.optimizedAvg.power = 30
  /\ tick.readout = [wattsSaved |-> 20, gramsPerHour |-> 8, pct |-> 40]

\* 40 W against 17 W shows 57 %, where round(100 * 23 / 40) is 58
C24_HalfwayShownLower ==
  /\ SavingsShown
  /\ ui.baselineAvg.power = 40 /\ ui.optimizedAvg.power = 17
  /\ tick.readout = [wattsSaved |-> 23, gramsPerHour |-> 9, pct |-> 57]

\* what holds of the readout: the watts and the grams are as stated, and the
\* percentage is the stated one, or one less when 100 * wattsSaved /
\* baselinePower lies halfway between two integers
C24_UpToHalfway ==
  (SavingsShown /\ ui.baselineAvg.power > 0) =>
    LET b == ui.baselineAvg.power
        o == ui.optimizedAvg.power
        r == tick.readout
        exact == Norm(100 * r.wattsSaved, b)
    IN  /\ r.wattsSaved = (IF b - o > 0 THEN b - o ELSE 0)
        /\ r.gramsPerHour = MathRound(Norm(2 * r.wattsSaved, 5))
        /\ \/ r.pct = MathRound(exact)
           \/ exact[2] = 2 /\ r.pct = MathRound(exact) - 1

-----------------------------------------------------------------------------
(* The door scene while the page is hidden.                                *)

\* the last step was a call of the door scene's animate that rendered a frame
\* and recorded its timestamp
Door_rendered ==
  scene = "door" /\ tick.op = "animate" /\ tick.called /\ tick.rendered

\* C30: in the door scene isPaused = (pauseOnHidden and document.hidden) in
\* every reachable state, the initial one with the page hidden and those
\* after a mode switch while hidden included; so in optimized mode no frame
\* is rendered and no timestamp recorded while the page is hidden.
C30_PausedIffHidden ==
  scene = "door" =>
    /\ isPaused = (pauseOnHidden /\ docHidden)
    /\ ~(Door_rendered /\ pauseOnHidden /\ docHidden)

\* the door scene was created while the page was hidden and rendered a frame
\* in optimized mode
C30_RenderedHidden == Door_rendered /\ pauseOnHidden /\ docHidden /\ ~isPaused

\* what holds: once a visibility change or a mode switch while hidden has
\* run, isPaused is pauseOnHidden and document.hidden
C30_AfterHandler ==
  [][(scene = "door" /\ (docHidden' # docHidden
                          \/ (tick'.op = "setPerformanceMode" /\ docHidden)))
       => isPaused' = (pauseOnHidden' /\ docHidden')]_vars

\* the background ticker is stopped, or will be once the worker has handled
\* what was sent to it: the last message sent, if one is waiting, is 'stop',
\* and no interval runs otherwise
Door_tickerStopped ==
  IF toWorker = <<>> THEN activeIntervals = 0
  ELSE toWorker[Len(toWorker)] = "stop"

\* the last step was a tick of the worker that called animate
Door_workerDrove ==
  scene = "door" /\ tick.op = "animate" /\ tick.called /\ tick.source = "worker"

\* C27: whenever the page is visible the background ticker is stopped: every
\* 'start' sent to the worker has been followed by a 'stop' by the time the
\* page is visible again, also after a switch to optimized while hidden, and
\* worker ticks drive animate only while the page is hidden in baseline mode.
C27_TickerStoppedWhenVisible ==
  scene = "door" =>
    /\ ~docHidden => Door_tickerStopped
    /\ Door_workerDrove => (docHidden /\ ~pauseOnHidden)

\* the page is visible again in optimized mode and the worker's interval,
\* started while hidden in baseline mode, still runs with no 'stop' on its way
C27_TickerLeftRunning ==
  /\ scene = "door" /\ ~docHidden /\ pauseOnHidden /\ ~cleanedUp
  /\ activeIntervals > 0 /\ toWorker = <<>>

\* a tick of the worker called animate on a visible page
C27_DrivenWhileVisible == Door_workerDrove /\ ~docHidden

\* the requestAnimationFrame registrations of animate not yet called
Door_registrations == rafPending + rafDue

\* C28: at most one requestAnimationFrame registration of the door scene's
\* render loop is pending at any time, whatever the interleaving of frame
\* callbacks, visibility changes, worker ticks in flight and the timeout
\* fallback; so frameId names the only pending registration, and the single
\* cancelAnimationFrame(frameId) of cleanup stops the whole loop.
C28_SingleRegistration ==
  scene = "door" =>
    /\ Door_registrations <= 1
    /\ (Door_registrations = 1 /\ ~cleanedUp) => frameIdLive
    /\ tick.op = "cleanup" => Door_registrations = 0

\* two registrations of animate are pending at once
C28_TwoPending == scene = "door" /\ ~cleanedUp /\ Door_registrations = 2

\* cleanup has run and a registration of animate is still pending
C28_LoopSurvivesCleanup ==
  scene = "door" /\ tick.op = "cleanup" /\ Door_registrations > 0

-----------------------------------------------------------------------------
(* The door scene's background ticking, under fair timers.                 *)

\* createDoorScene on a page of its own
DoorPageInit == MonInit /\ DoorInit

\* the scene's handlers, its timers and its worker.  The browser's frames are
\* left out: whether a hidden page is given any is up to the browser, and
\* here it is given none, so that what is rendered while hidden is rendered
\* on a tick of the worker or of the timeout.
TickerNext ==
  \/ \E d \in TimeSteps : Advance(d)
  \/ Door_workerTick
  \/ Door_timeoutTick
  \/ \E m \in Modes : Door_setPerformanceMode(m)
  \/ Door_handleVisibilityChange
  \/ Worker_onmessage
  \/ Worker_interval
  \/ Door_cleanup

\* time passes, the worker handles the messages sent to it, its interval
\* fires, and posted ticks and due timeouts are delivered.  Nothing is
\* assumed of the user (visibility, mode switches, cleanup).
TimersFair ==
  /\ WF_vars(\E d \in TimeSteps : Advance(d))
  /\ WF_vars(Worker_onmessage)
  /\ WF_vars(Worker_interval)
  /\ WF_vars(Door_workerTick)
  /\ WF_vars(Door_timeoutTick)

\* the door scene with fair timers
SpecTicker == DoorPageInit /\ [][TickerNext]_vars /\ TimersFair

\* the page is hidden in baseline mode and the scene is mounted
HiddenInBaseline == scene = "door" /\ docHidden /\ ~pauseOnHidden /\ ~cleanedUp

\* the last step was a call of animate; frames are rendered by animate alone
Door_animated == scene = "door" /\ tick.op = "animate" /\ tick.called

\* hidden in baseline mode with time still to pass, the last step not being
\* a call of animate
AwaitingFrame == HiddenInBaseline /\ clock < MaxClock /\ ~Door_animated

\* C26: in baseline mode, for as long as the page stays hidden, frames keep
\* being rendered: under fair timers animate is always eventually called
\* again, by the worker's ticks or, where the worker cannot be created, by
\* the delayed-callback fallback, also when baseline mode was entered with
\* the page already hidden.
C26_KeepsRendering == AwaitingFrame ~> (Door_animated \/ ~HiddenInBaseline)

\* the same for the states in which the worker's ticker runs or is about to
C26_WorkerKeepsRendering ==
  (AwaitingFrame /\ ~Door_tickerStopped) ~> (Door_animated \/ ~HiddenInBaseline)

\* hidden in baseline mode with time left, no ticker of the worker running
\* or asked for, no timeout pending and no tick on its way
C26_NothingArmed ==
  /\ HiddenInBaseline /\ clock < MaxClock
  /\ activeIntervals = 0 /\ toWorker = <<>> /\ inflight = <<>> /\ timers = <<>>

-----------------------------------------------------------------------------
(* The settings panel of ThreeSceneWithGPU and the scene's settings.       *)

\* Math.max(1, Math.min(120, nextFps || 30))
TargetFpsOf(nextFps) ==
  LET n == IF nextFps = 0 THEN 30 ELSE nextFps
  IN  IF n > 120 THEN 120 ELSE IF n < 1 THEN 1 ELSE n

\* Math.max(1, Math.min(30, nextFps || 5))
BackgroundFpsOf(nextFps) ==
  LET n == IF nextFps = 0 THEN 5 ELSE nextFps
  IN  IF n > 30 THEN 30 ELSE IF n < 1 THEN 1 ELSE n

\* Math.max(0.5, Math.min(3, nextClamp || 1.5))
PixelRatioClampOf(nextClamp) ==
  LET c == IF nextClamp[1] = 0 THEN <<3, 2>> ELSE nextClamp
  IN  RMax(<<1, 2>>, RMin(R(3), c))

\* positions of the sliders and of the theme select that are tried
SliderTargetFps == {15, 30, 45, 60}
SliderBackgroundFps == {1, 5}
SliderPixelRatioClamp == {<<1, 2>>, <<6, 5>>, <<3, 2>>, <<3, 1>>}
SelectThemes == {"dark", "light"}

\* the settings the panel holds in React state
UiSettings ==
  [theme |-> ui.theme, pixelRatioClamp |-> ui.pixelRatioClamp,
   targetFps |-> ui.targetFps, backgroundFps |-> ui.backgroundFps]

\* the component renders with the settings `next`, and the effect of every
\* setting that changed calls the scene's setter; `base` is what the scene
\* holds when the effects run
UI_settingsSync(next, base) ==
  LET fpsRan   == next.targetFps # ui.targetFps
      clampRan == next.pixelRatioClamp # ui.pixelRatioClamp
  IN  /\ targetFps' = IF fpsRan THEN TargetFpsOf(next.targetFps) ELSE base.fps
      /\ frameIntervalMs' = FrameIntervalOf(targetFps')
      /\ backgroundFps' = IF next.backgroundFps # ui.backgroundFps
                          THEN BackgroundFpsOf(next.backgroundFps)
                          ELSE backgroundFps
      /\ pixelRatioClamp' = IF clampRan THEN PixelRatioClampOf(next.pixelRatioClamp)
                            ELSE base.clamp
      /\ rendererPixelRatio' = applyRendererSizing(pixelRatioClamp')
      /\ currentTheme' = IF next.theme # ui.theme THEN ThemeOrLight(next.theme)
                         ELSE currentTheme
      /\ estimateFresh' = (estimateFresh /\ next.theme = ui.theme)
      /\ modeCall' = IF fpsRan \/ clampRan THEN "none" ELSE base.modeCall
      /\ ui' = [ui EXCEPT !.theme = next.theme,
                          !.pixelRatioClamp = next.pixelRatioClamp,
                          !.targetFps = next.targetFps,
                          !.backgroundFps = next.backgroundFps]
      /\ UNCHANGED <<stats_fps, stats_frameTime, stats_drawCalls,
                     stats_triangles, gpu_utilization, gpu_temperature,
                     gpu_power, frameTimes, lastRenderNow, fpsSamples,
                     dynamicPeakFps, snapshot, dashboard, inserted>>
      /\ UNCHANGED <<scene, lastRenderTime, isHidden, rampStartMs, doorVars,
                     workerVars, envVars, mountVars, reported, shownAt>>

\* what the scene holds now
SceneNow == [fps |-> targetFps, clamp |-> pixelRatioClamp, modeCall |-> modeCall]

\* a slider of the panel, or its theme select, is moved
UI_slider(next) ==
  /\ scene = "model"
  /\ next # UiSettings
  /\ UI_settingsSync(next, SceneNow)
  /\ tick' = [called |-> FALSE, op |-> "slider"]

\* onApplyOptimizations: the preset of the dashboard's button, then
\* setPerformanceMode('optimized'), then the effects of what changed
UI_applyOptimizations ==
  /\ scene = "model"
  /\ UI_settingsSync([theme |-> "dark", pixelRatioClamp |-> <<6, 5>>,
                      targetFps |-> 30, backgroundFps |-> 5],
                     [fps |-> ModePreset("optimized").fps,
                      clamp |-> ModePreset("optimized").clamp,
                      modeCall |-> "optimized"])
  /\ tick' = [called |-> FALSE, op |-> "applyOptimizations"]

\* onExportMetrics: the settings rows of the CSV
UI_exportMetrics ==
  /\ scene = "model"
  /\ tick' = [called |-> FALSE, op |-> "exportMetrics", csv |-> UiSettings]
  /\ UNCHANGED <<monVars, sceneVars, doorVars, workerVars, envVars,
                 mountVars, reported, modeCall, shownAt>>

SettingsNext ==
  \/ UI_toggleMode
  \/ \E t \in SelectThemes : UI_slider([UiSettings EXCEPT !.theme = t])
  \/ \E n \in SliderTargetFps : UI_slider([UiSettings EXCEPT !.targetFps = n])
  \/ \E n \in SliderBackgroundFps :
       UI_slider([UiSettings EXCEPT !.backgroundFps = n])
  \/ \E c \in SliderPixelRatioClamp :
       UI_slider([UiSettings EXCEPT !.pixelRatioClamp = c])
  \/ UI_applyOptimizations
  \/ UI_exportMetrics

\* the page with its Mode button, its settings panel and its dashboard
SpecSettings == PageInit /\ [][SettingsNext]_vars

\* a UI action has finished in the last step
UiActionDone ==
  /\ scene = "model"
  /\ tick.op \in {"toggleMode", "slider", "applyOptimizations",
                  "runComparison.done", "exportMetrics"}

\* C29: once a UI action has finished (toggleMode, runComparison, a slider
\* change, apply-optimizations), the UI's mode, targetFps and pixelRatioClamp
\* state equals the scene's actual settings, so the panel and the CSV export
\* report the settings that are in force.
C29_UiMatchesScene ==
  UiActionDone =>
    /\ ui.targetFps = targetFps
    /\ ui.pixelRatioClamp = pixelRatioClamp
    /\ modeCall \in Modes => ui.mode = modeCall
    /\ tick.op = "exportMetrics" =>
         /\ tick.csv.targetFps = targetFps
         /\ tick.csv.pixelRatioClamp = pixelRatioClamp

\* the Mode button was pressed: the panel shows 30 FPS and a clamp of 1.5
\* while the scene runs at 60 FPS with a clamp of 3
C29_ToggleLeavesPanel ==
  /\ scene = "model" /\ tick.op = "toggleMode"
  /\ ui.mode = "baseline" /\ ui.targetFps = 30 /\ targetFps = 60
  /\ ui.pixelRatioClamp = <<3, 2>> /\ pixelRatioClamp = <<3, 1>>

\* apply-optimizations with the panel already at the preset: the panel shows
\* a clamp of 1.2 and the scene holds 1.5
C29_ApplyLeavesClamp ==
  /\ scene = "model" /\ tick.op = "applyOptimizations"
  /\ ui.pixelRatioClamp = <<6, 5>> /\ pixelRatioClamp = <<3, 2>>

\* the CSV reports a target FPS the scene does not run at
C29_CsvStale ==
  /\ scene = "model" /\ tick.op = "exportMetrics"
  /\ tick.csv.targetFps # targetFps

\* what holds: a slider change leaves the setting it changed equal in the
\* panel and in the scene
C29_SliderInForce ==
  [][(scene = "model" /\ tick'.op = "slider") =>
       /\ ui'.targetFps # ui.targetFps => targetFps' = ui'.targetFps
       /\ ui'.pixelRatioClamp # ui.pixelRatioClamp =>
            pixelRatioClamp' = ui'.pixelRatioClamp]_vars

=============================================================================
